---- MODULE Spec2Model ----
(***************************************************************************)
(* A model of the bbs-tui client (crates/bbs-tui): the client token        *)
(* bucket (rate.rs), the store's rate-gated message insert (data.rs), the  *)
(* change notifier (realtime.rs) and the session coordinator with its      *)
(* render loop (ui.rs).                                                    *)
(*                                                                         *)
(* Time is a global clock `now` counted in ticks, TicksPerMinute ticks to  *)
(* the minute.  Token counts are kept exactly, in units of 1/TicksPerMinute*)
(* token, so that the f64 arithmetic of rate.rs is modelled by exact       *)
(* rational arithmetic: one token is TicksPerMinute units and one tick     *)
(* refills rate_per_min units.                                             *)
(***************************************************************************)
EXTENDS Integers, Sequences, FiniteSets, TLC

VARIABLES
    now,           \* wall clock (store now(), Instant::now(), Utc::now()), in ticks
    messages_tbl,  \* store table `messages`: row i has id i
    room_members,  \* store table `room_members`, in the order of last_joined_at desc
    bucket,        \* App.bucket, the client TokenBucket
    b_hist,        \* history of the bucket's try_consume calls (SpecBucket)
    ret,           \* outcome of the last direct insert_message call (SpecGate)
    room,          \* App.room (id of the current room)
    input,         \* App.input, a sequence of words
    status,        \* App.status
    messages,      \* App.messages, the loaded list (message ids, in list order)
    seen_ids,      \* App.seen_ids
    rooms,         \* App.rooms: sequence of RoomEntry [id, unread]
    running,       \* App.running
    c_pc,          \* position of the render loop of ui::run
    calls,         \* what the key handled in this turn of the loop asked of the bucket and the store
    own_sent,      \* ids this session wrote and appended since it entered the current room
    echoed,        \* ids of own_sent for which an event has been drained since
    queue,         \* the mpsc channel between the notifier and the render loop
    n_pc,          \* position of the notifier task
    backoff_secs,  \* spawn_listener's backoff_secs
    steps_left,    \* remaining iterations of the polling for-loop
    last_seen,     \* spawn_listener's last_seen
    rows,          \* rows of the running poll_once not yet forwarded
    notifs,        \* notifications buffered for the open subscription
    n_ev,          \* the event the notifier is about to send
    fails,         \* history of the notifier: failed run_once calls so far (saturating)
    dropped,       \* history of the notifier: a notification of the open subscription was dropped
    users_tbl,     \* store table `users`: row i has id i
    resolver,      \* the processes in upsert_user_by_fp at startup (SpecIdentity)
    rooms_tbl,     \* store table `rooms`: row i has id i
    c_local,       \* the local `room` of the command being handled, between its store calls
    name_changes,  \* store table `name_changes`, in the order of the commits
    renamer,       \* the transactions of change_handle in progress, one per client
    app_user,      \* App.user.handle
    joiner,        \* the sessions inside Command::Join, between their store statements (SpecRace)
    drained        \* history of the drain: events taken off the queue since the while loop was entered

vars == <<now, messages_tbl, room_members, bucket, b_hist, ret, room, input, status,
          messages, seen_ids, rooms, running, c_pc, calls, own_sent, echoed, queue,
          n_pc, backoff_secs, steps_left, last_seen, rows, notifs, n_ev, fails, dropped,
          users_tbl, resolver, rooms_tbl, c_local, name_changes, renamer, app_user, joiner, drained>>

storeVars == <<messages_tbl, room_members>>
histVars == <<b_hist, drained>>
renameVars == <<name_changes, renamer, app_user>>
identityVars == <<users_tbl, resolver, renameVars, joiner>>
appVars == <<room, input, status, messages, seen_ids, rooms, running, c_pc, calls,
             own_sent, echoed>>
notifierVars == <<n_pc, backoff_secs, steps_left, last_seen, rows, notifs, n_ev, fails, dropped>>

(***************************************************************************)
(* Bounds of the model.                                                    *)
(***************************************************************************)
TicksPerMinute == 2
MaxTime == 3
MaxMsgs == 2
GateMaxMsgs == 4
SyncMaxTime == 1
MaxRate == 3
RatePerMin == 2
QueueCap == 2
PollLimit == 2
MaxDrained == 3
MsgMaxLen == 1
HistoryLoad == 2

Min(a, b) == IF a <= b THEN a ELSE b
Max(a, b) == IF a >= b THEN a ELSE b

(***************************************************************************)
(* rate.rs: TokenBucket.  tokens and capacity are in units of              *)
(* 1/TicksPerMinute token.                                                 *)
(***************************************************************************)
TokenBucket_new(rate_per_min, t) ==
    [capacity |-> rate_per_min * TicksPerMinute,
     tokens   |-> rate_per_min * TicksPerMinute,
     rate     |-> rate_per_min,
     last     |-> t]

\* refill without the cap at capacity
refill_no_cap(b, t) ==
    [b EXCEPT !.tokens = b.tokens + b.rate * Max(t - b.last, 0), !.last = t]

\* refill: dt saturates at 0; add = rate_per_sec * dt; tokens = min(tokens + add, capacity)
refill(b, t) ==
    LET dt  == Max(t - b.last, 0)
        add == b.rate * dt
    IN  [b EXCEPT !.tokens = Min(b.tokens + add, b.capacity), !.last = t]

\* try_consume(n): refill, then take n tokens if tokens + 1e-9 >= n.  The tolerance
\* is below the resolution of the exact arithmetic used here (1/TicksPerMinute).
try_consume(b, n, t) ==
    LET r == refill(b, t)
    IN  IF r.tokens >= n * TicksPerMinute
        THEN [ok |-> TRUE,  b |-> [r EXCEPT !.tokens = r.tokens - n * TicksPerMinute]]
        ELSE [ok |-> FALSE, b |-> r]

peek_tokens(b, t) == refill(b, t)

(***************************************************************************)
(* data.rs: the store.                                                     *)
(***************************************************************************)
Users == {1, 2}
Me == 1
Rooms == {1, 2}

NoRow == [id |-> 0]

\* the CTE `recent`: the author's messages with created_at > now() - 1 minute
recent(tbl, user_id, t) ==
    Cardinality({i \in DOMAIN tbl :
                    tbl[i].user_id = user_id /\ tbl[i].created_at > t - TicksPerMinute})

\* insert_message with the gate's comparison off by one (<= for <)
insert_message_le(tbl, room_id, user_id, t) ==
    IF recent(tbl, user_id, t) <= RatePerMin
    THEN LET m == [id |-> Len(tbl) + 1, room_id |-> room_id, user_id |-> user_id,
                   created_at |-> t]
         IN  [rec |-> m, tbl |-> Append(tbl, m)]
    ELSE [rec |-> [id |-> 0], tbl |-> tbl]

\* insert_message: one conditional insert; rec is the returned row or NoRow,
\* which the caller turns into Err("rate_limited")
insert_message(tbl, room_id, user_id, t) ==
    IF recent(tbl, user_id, t) < RatePerMin
    THEN LET m == [id |-> Len(tbl) + 1, room_id |-> room_id, user_id |-> user_id,
                   created_at |-> t]
         IN  [rec |-> m, tbl |-> Append(tbl, m)]
    ELSE [rec |-> NoRow, tbl |-> tbl]

\* join_room as a plain insert, without `on conflict ... do update`
join_room_plain_insert(tbl, room_id, user_id) ==
    <<[room_id |-> room_id, user_id |-> user_id]>> \o tbl

\* join_room: upsert of the (room, user) membership with last_joined_at = now().
\* room_members is kept in the order of last_joined_at, the latest first, which
\* is all the program reads of that column.
join_room(tbl, room_id, user_id) ==
    LET keep(m) == ~(m.room_id = room_id /\ m.user_id = user_id)
    IN  <<[room_id |-> room_id, user_id |-> user_id]>> \o SelectSeq(tbl, keep)

\* rooms.rs, valid_room_name: the names that pass
ValidNames == {"lobby", "dev", "temp"}

valid_room_name(name) == name \in ValidNames

\* leave_room: the membership of the pair is deleted; dropped says whether
\* there was one
leave_room(tbl, room_id, user_id) ==
    LET keep(m) == ~(m.room_id = room_id /\ m.user_id = user_id)
    IN  [dropped |-> \E i \in DOMAIN tbl : ~keep(tbl[i]), tbl |-> SelectSeq(tbl, keep)]

\* a lookup that returns the room of that name whether it is deleted or not
ensure_room_exists_any(tbl, name, created_by) ==
    IF \E i \in DOMAIN tbl : tbl[i].name = name
    THEN LET i == CHOOSE j \in DOMAIN tbl : tbl[j].name = name
         IN  [err |-> "", id |-> i, tbl |-> tbl]
    ELSE [err |-> "", id |-> Len(tbl) + 1,
          tbl |-> Append(tbl, [id |-> Len(tbl) + 1, name |-> name,
                               created_by |-> created_by, is_deleted |-> FALSE])]

\* ensure_room_exists: the room of that name, Err("room_deleted") if it is
\* soft-deleted, a new room created by the caller if there is none
ensure_room_exists(tbl, name, created_by) ==
    IF \E i \in DOMAIN tbl : tbl[i].name = name
    THEN LET i == CHOOSE j \in DOMAIN tbl : tbl[j].name = name
         IN  IF tbl[i].is_deleted
             THEN [err |-> "room_deleted", id |-> 0, tbl |-> tbl]
             ELSE [err |-> "", id |-> i, tbl |-> tbl]
    ELSE [err |-> "", id |-> Len(tbl) + 1,
          tbl |-> Append(tbl, [id |-> Len(tbl) + 1, name |-> name,
                               created_by |-> created_by, is_deleted |-> FALSE])]

\* a soft delete that does not test who created the room
soft_delete_room_by_anyone(tbl, name, creator_id) ==
    LET hit(i) == tbl[i].name = name /\ ~tbl[i].is_deleted
    IN  [ok  |-> \E i \in DOMAIN tbl : hit(i),
         tbl |-> [i \in DOMAIN tbl |->
                    IF hit(i) THEN [tbl[i] EXCEPT !.is_deleted = TRUE] ELSE tbl[i]]]

\* soft_delete_room_by_creator: ok says whether a row was updated
soft_delete_room_by_creator(tbl, name, creator_id) ==
    LET hit(i) == tbl[i].name = name /\ tbl[i].created_by = creator_id /\ ~tbl[i].is_deleted
    IN  [ok  |-> \E i \in DOMAIN tbl : hit(i),
         tbl |-> [i \in DOMAIN tbl |->
                    IF hit(i) THEN [tbl[i] EXCEPT !.is_deleted = TRUE] ELSE tbl[i]]]

\* a list of the rooms anyone has joined, without the test of the user
list_joined_rooms_any_user(members, tbl, user_id) ==
    LET mine(m) == ~tbl[m.room_id].is_deleted
        sel == SelectSeq(members, mine)
    IN  [i \in 1..Len(sel) |-> [id |-> sel[i].room_id, unread |-> 0]]

\* list_joined_rooms: the user's rooms that are not deleted, the last joined
\* first, as entries of the sidebar
list_joined_rooms(members, tbl, user_id) ==
    LET mine(m) == m.user_id = user_id /\ ~tbl[m.room_id].is_deleted
        sel == SelectSeq(members, mine)
    IN  [i \in 1..Len(sel) |-> [id |-> sel[i].room_id, unread |-> 0]]

\* the ids of S in an order of nondecreasing created_at; rows of equal created_at
\* come in any order (`order by created_at` names no tie-break)
RECURSIVE Orderings(_, _)
Orderings(tbl, S) ==
    IF S = {} THEN {<<>>}
    ELSE UNION {{<<i>> \o s : s \in Orderings(tbl, S \ {i})} :
                    i \in {j \in S : \A k \in S : tbl[j].created_at <= tbl[k].created_at}}

LastN(s, n) == SubSeq(s, Max(Len(s) - n, 0) + 1, Len(s))
FirstN(s, n) == SubSeq(s, 1, Min(Len(s), n))

\* recent_messages_view: the newest `limit` messages of the room, returned in
\* chronological order (the set of lists the query may return)
recent_messages_view(tbl, room_id, limit) ==
    {LastN(o, limit) : o \in Orderings(tbl, {i \in DOMAIN tbl : tbl[i].room_id = room_id})}

\* message_view_by_id: the row with that id, if any
message_view_by_id(tbl, id) == IF id \in DOMAIN tbl THEN {tbl[id]} ELSE {}

(***************************************************************************)
(* Initial values of the three parts of the state.                         *)
(***************************************************************************)
\* the users and rooms there are when the session starts: the session's user
\* (id 1) and another (id 2); the default room and another, both joined
InitUsers ==
    <<[id |-> 1, fp |-> "fp1", handle |-> "h1"], [id |-> 2, fp |-> "fp2", handle |-> "h2"]>>

InitRooms ==
    <<[id |-> 1, name |-> "lobby", created_by |-> 1, is_deleted |-> FALSE],
      [id |-> 2, name |-> "dev", created_by |-> 2, is_deleted |-> FALSE]>>

MaxProcs == 2
Procs == 1..MaxProcs

\* a process that is not resolving an identity
NoCall == [pc |-> "idle", fp |-> "", tries |-> 0, attempts |-> 0, user |-> 0,
           err |-> "", fp_conflict |-> FALSE, handle_conflicts |-> 0]

NoCalls == [try_consume |-> "none", insert_message |-> "none", key |-> ""]
called(k) == [NoCalls EXCEPT !.key = k]
NoRet == [res |-> "none", user |-> 0, count |-> 0, rows |-> 0]
NoEvent == [id |-> 0, room_id |-> 0]

\* no transaction of change_handle in progress
NoRename == [pc |-> "idle", user |-> 0, new |-> "", old |-> ""]

\* a session that is not inside Command::Join
NoJoin == [pc |-> "idle", user |-> 0, name |-> "", room |-> 0]

\* no handle has been changed, the session's copy of its user is the row, and
\* no session is inside Command::Join
InitRename ==
    /\ name_changes = <<>>
    /\ renamer = [p \in Procs |-> NoRename]
    /\ app_user = InitUsers[Me].handle
    /\ joiner = [p \in Procs |-> NoJoin]

InitStore ==
    /\ InitRename
    /\ messages_tbl = <<>>
    /\ room_members = <<[room_id |-> 1, user_id |-> Me], [room_id |-> 2, user_id |-> Me]>>
    /\ ret = NoRet
    /\ users_tbl = InitUsers
    /\ rooms_tbl = InitRooms

\* the identity of the session is resolved: no process is in upsert_user_by_fp
InitResolved == resolver = [p \in Procs |-> NoCall]

InitApp ==
    /\ room = 1
    /\ input = <<>>
    /\ status = "/help for commands"
    /\ messages = <<>>
    /\ seen_ids = {}
    /\ rooms = <<[id |-> 1, unread |-> 0], [id |-> 2, unread |-> 0]>>
    /\ running = TRUE
    /\ c_pc = "draw"
    /\ calls = NoCalls
    /\ own_sent = {}
    /\ echoed = {}
    /\ c_local = 0

InitNotifier ==
    /\ queue = <<>>
    /\ n_pc = "run_once"
    /\ backoff_secs = 1
    /\ steps_left = 0
    /\ last_seen = 0
    /\ rows = <<>>
    /\ notifs = <<>>
    /\ n_ev = NoEvent
    /\ fails = 0
    /\ dropped = FALSE

\* the passing of time
Alive == c_pc \notin {"done", "failed"}

Tick ==
    /\ Alive
    /\ now < MaxTime
    /\ now' = now + 1
    /\ UNCHANGED <<storeVars, ret, bucket, histVars, identityVars, rooms_tbl, c_local,
                   appVars, queue, notifierVars>>

(***************************************************************************)
(* SpecBucket: a TokenBucket of any rate 1..MaxRate, used by try_consume(1)*)
(* and peek_tokens as time passes.                                         *)
(***************************************************************************)
NoTry == [ok |-> TRUE, since |-> 0, dt |-> 0, kept |-> TRUE]
NoHist == [taken |-> 0, last_take |-> 0, denied0 |-> FALSE, try |-> NoTry]

InitBucket ==
    /\ now = 0
    /\ bucket \in {TokenBucket_new(r, 0) : r \in 1..MaxRate}
    /\ b_hist = NoHist
    /\ drained = 0
    /\ InitStore /\ InitResolved /\ InitApp /\ InitNotifier

\* try_consume(1.0).  b_hist notes the call: its outcome, the time since the
\* last successful consume and since the last refill, and whether the token
\* count was left as it was
BucketTry ==
    LET r == try_consume(bucket, 1, now)
    IN  /\ bucket' = r.b
        /\ b_hist' = [taken     |-> IF r.ok THEN b_hist.taken + 1 ELSE b_hist.taken,
                      last_take |-> IF r.ok THEN now ELSE b_hist.last_take,
                      denied0   |-> b_hist.denied0 \/ (~r.ok /\ now = 0),
                      try       |-> [ok    |-> r.ok,
                                     since |-> now - b_hist.last_take,
                                     dt    |-> now - bucket.last,
                                     kept  |-> r.b.tokens = bucket.tokens]]
        /\ UNCHANGED <<now, drained, storeVars, ret, identityVars, rooms_tbl, c_local, appVars,
                       queue, notifierVars>>

BucketPeek ==
    /\ bucket' = peek_tokens(bucket, now)
    /\ bucket' # bucket
    /\ UNCHANGED <<now, histVars, identityVars, rooms_tbl, c_local, storeVars, ret, appVars,
                   queue, notifierVars>>

NextBucket == BucketTry \/ BucketPeek \/ Tick

SpecBucket == InitBucket /\ [][NextBucket]_vars

(***************************************************************************)
(* SpecGate: clients of any user call insert_message as time passes.       *)
(***************************************************************************)
InitGate ==
    /\ now = 0
    /\ bucket = TokenBucket_new(RatePerMin, 0)
    /\ b_hist = NoHist
    /\ drained = 0
    /\ InitStore /\ InitResolved /\ InitApp /\ InitNotifier

\* one call of insert_message; ret notes the author's messages of the trailing
\* minute before the call, the outcome and the number of rows written
InsertMessageCall(u, r) ==
    LET res == insert_message(messages_tbl, r, u, now)
    IN  /\ Len(res.tbl) <= GateMaxMsgs
        /\ messages_tbl' = res.tbl
        /\ ret' = [res   |-> IF res.rec = NoRow THEN "rate_limited" ELSE "ok",
                   user  |-> u,
                   count |-> Cardinality({i \in DOMAIN messages_tbl :
                                 /\ messages_tbl[i].user_id = u
                                 /\ now - messages_tbl[i].created_at < TicksPerMinute}),
                   rows  |-> Len(messages_tbl') - Len(messages_tbl)]
        /\ UNCHANGED <<now, room_members, bucket, histVars, identityVars, rooms_tbl, c_local,
                       appVars, queue, notifierVars>>

GateCall == \E u \in Users, r \in Rooms : InsertMessageCall(u, r)

NextGate == GateCall \/ Tick

SpecGate == InitGate /\ [][NextGate]_vars

(***************************************************************************)
(* Spec: one session (ui::run) with its notifier task (realtime.rs),       *)
(* other clients writing to the same store, and time passing.              *)
(***************************************************************************)
BackoffCap == 30
PollDivisor == 2
MaxFails == 6
MaxTransportFails == 1
NotifCap == 2

\* the room_events trigger of the store: a notification per inserted message,
\* delivered to the subscription if one is open
Listening == n_pc \in {"recv", "send"}

pg_notify(m) ==
    IF Listening
    THEN Append(notifs, [json |-> TRUE, t |-> "msg", room_id |-> m.room_id, id |-> m.id])
    ELSE notifs

\* a message written by another client (of any user, this session's included)
ExternalSend ==
    \E u \in Users, r \in Rooms :
        LET res == insert_message(messages_tbl, r, u, now)
        IN  /\ Alive
            /\ res.rec # NoRow
            /\ Len(res.tbl) <= MaxMsgs
            /\ messages_tbl' = res.tbl
            /\ notifs' = pg_notify(res.rec)
            /\ UNCHANGED <<now, room_members, ret, bucket, histVars, identityVars, rooms_tbl,
                           c_local, appVars, queue, n_pc, backoff_secs, steps_left,
                           last_seen, rows, n_ev, fails, dropped>>

(***************************************************************************)
(* realtime.rs: the notifier task.                                         *)
(***************************************************************************)
\* tx.send(ev).await: waits while the channel is full, Err (ignored) once the
\* receiver is gone
CanSend == ~Alive \/ Len(queue) < QueueCap
sent(ev) == IF Alive THEN Append(queue, ev) ELSE queue

\* the Err arm of spawn_listener's match: the number of polling steps
backoff_steps(b) == Max(Min(b, BackoffCap) \div PollDivisor, 1)

\* the doubling without its cap
backoff_next_no_cap(b) == b * 2

\* the end of the Err arm
backoff_next(b) == Min(b * 2, BackoffCap)

\* run_once: connect and listen succeed, the task waits in recv
Subscribe ==
    /\ Alive /\ n_pc = "run_once"
    /\ n_pc' = "recv"
    /\ notifs' = <<>>
    /\ UNCHANGED <<now, storeVars, ret, bucket, histVars, identityVars, rooms_tbl, c_local,
                   appVars, queue, backoff_secs, steps_left, last_seen, rows, n_ev, fails,
                   dropped>>

\* run_once returns Err: connect or listen fails, or recv fails on an open
\* subscription; spawn_listener starts the polling loop
RunOnceErr ==
    /\ Alive /\ n_pc \in {"run_once", "recv"}
    /\ n_pc' = "poll"
    /\ steps_left' = backoff_steps(backoff_secs)
    /\ notifs' = <<>>
    /\ fails' = Min(fails + 1, MaxFails)
    /\ dropped' = FALSE
    /\ UNCHANGED <<now, storeVars, ret, bucket, histVars, identityVars, rooms_tbl, c_local,
                   appVars, queue, backoff_secs, last_seen, rows, n_ev>>

\* a payload as serde_json::from_str::<NotifyPayload> sees it: json says whether
\* it parses into the three fields t, room_id and id
Payloads ==
    {[json |-> FALSE, t |-> "", room_id |-> 0, id |-> 0],
     [json |-> TRUE, t |-> "other", room_id |-> 1, id |-> 1]}

\* any client of the store may NOTIFY room_events with a payload of its own:
\* one that is not a NotifyPayload, or one of another type tag
ForeignNotify ==
    \E p \in Payloads :
        /\ Alive /\ Listening
        /\ Len(notifs) < NotifCap
        /\ notifs' = Append(notifs, p)
        /\ UNCHANGED <<now, storeVars, ret, bucket, histVars, identityVars, rooms_tbl,
                       c_local, appVars, queue, n_pc, backoff_secs, steps_left, last_seen,
                       rows, n_ev, fails, dropped>>

\* run_once's loop body without the test of the type tag
Recv_any_tag ==
    /\ Alive /\ n_pc = "recv" /\ notifs # <<>>
    /\ notifs' = Tail(notifs)
    /\ IF Head(notifs).json
       THEN /\ n_ev' = [id |-> Head(notifs).id, room_id |-> Head(notifs).room_id]
            /\ n_pc' = "send"
            /\ UNCHANGED dropped
       ELSE /\ dropped' = TRUE
            /\ UNCHANGED <<n_ev, n_pc>>
    /\ UNCHANGED <<now, storeVars, ret, bucket, histVars, identityVars, rooms_tbl, c_local,
                   appVars, queue, backoff_secs, steps_left, last_seen, rows, fails>>

\* run_once: recv returns a notification; a payload that parses and is tagged
\* "msg" becomes the event to send, any other is dropped
Recv ==
    /\ Alive /\ n_pc = "recv" /\ notifs # <<>>
    /\ notifs' = Tail(notifs)
    /\ IF Head(notifs).json /\ Head(notifs).t = "msg"
       THEN /\ n_ev' = [id |-> Head(notifs).id, room_id |-> Head(notifs).room_id]
            /\ n_pc' = "send"
            /\ UNCHANGED dropped
       ELSE /\ dropped' = TRUE
            /\ UNCHANGED <<n_ev, n_pc>>
    /\ UNCHANGED <<now, storeVars, ret, bucket, histVars, identityVars, rooms_tbl, c_local,
                   appVars, queue, backoff_secs, steps_left, last_seen, rows, fails>>

\* run_once: tx.send(event).await
NotifSend ==
    /\ Alive /\ n_pc = "send"
    /\ CanSend
    /\ queue' = sent(n_ev)
    /\ n_ev' = NoEvent
    /\ n_pc' = "recv"
    /\ UNCHANGED <<now, storeVars, ret, bucket, histVars, identityVars, rooms_tbl, c_local,
                   appVars, backoff_secs, steps_left, last_seen, rows, notifs, fails,
                   dropped>>

\* poll_once whose failed query moves last_seen to the time of the attempt
PollQuery_err_moves_last_seen ==
    /\ Alive /\ n_pc = "poll"
    /\ \/ /\ rows' \in {FirstN(o, PollLimit) :
                          o \in Orderings(messages_tbl,
                                   {i \in DOMAIN messages_tbl :
                                        messages_tbl[i].created_at > last_seen})}
          /\ n_pc' = "poll_send"
          /\ UNCHANGED last_seen
       \/ /\ rows' = <<>>
          /\ n_pc' = "poll_err"
          /\ last_seen' = now
    /\ UNCHANGED <<now, storeVars, ret, bucket, histVars, identityVars, rooms_tbl, c_local,
                   appVars, queue, backoff_secs, steps_left, notifs, n_ev, fails, dropped>>

\* poll_once: the query; on Err the caller ignores it and sleeps
PollQuery ==
    /\ Alive /\ n_pc = "poll"
    /\ \/ /\ rows' \in {FirstN(o, PollLimit) :
                          o \in Orderings(messages_tbl,
                                   {i \in DOMAIN messages_tbl :
                                        messages_tbl[i].created_at > last_seen})}
          /\ n_pc' = "poll_send"
       \/ \* the query returns Err: `if let Err(_pe)`, ignored
          /\ rows' = <<>>
          /\ n_pc' = "poll_err"
    /\ UNCHANGED <<now, storeVars, ret, bucket, histVars, identityVars, rooms_tbl, c_local,
                   appVars, queue, backoff_secs, steps_left, last_seen, notifs, n_ev,
                   fails, dropped>>

\* poll_once: the loop over the rows; one tx.send(event).await per row, then
\* last_seen advances
PollSend ==
    /\ Alive /\ n_pc = "poll_send"
    /\ IF rows = <<>>
       THEN /\ n_pc' = "sleep"
            /\ UNCHANGED <<queue, last_seen, rows>>
       ELSE LET r == messages_tbl[Head(rows)]
            IN  /\ CanSend
                /\ queue' = sent([id |-> r.id, room_id |-> r.room_id])
                /\ last_seen' = IF r.created_at > last_seen THEN r.created_at ELSE last_seen
                /\ rows' = Tail(rows)
                /\ UNCHANGED n_pc
    /\ UNCHANGED <<now, storeVars, ret, bucket, histVars, identityVars, rooms_tbl, c_local,
                   appVars, backoff_secs, steps_left, notifs, n_ev, fails, dropped>>

\* sleep(2s), then the next polling step or, after the last, the doubling of
\* the backoff and the next run_once
Sleep ==
    /\ Alive /\ n_pc \in {"sleep", "poll_err"}
    /\ steps_left' = steps_left - 1
    /\ IF steps_left' > 0
       THEN /\ n_pc' = "poll"
            /\ UNCHANGED backoff_secs
       ELSE /\ n_pc' = "run_once"
            /\ backoff_secs' = backoff_next(backoff_secs)
    /\ UNCHANGED <<now, storeVars, ret, bucket, histVars, identityVars, rooms_tbl, c_local,
                   appVars, queue, last_seen, rows, notifs, n_ev, fails, dropped>>

(***************************************************************************)
(* input.rs and ui.rs: lines of input.  A line is a sequence of words; a   *)
(* word stands for a run of characters and counts 1 towards the length.    *)
(***************************************************************************)
Words == {"hi", "/me"}
SlashWords == {"/me", "/join", "/leave", "/roomdel", "/nick"}

\* the lines the operator types (with all their prefixes)
Lines == {[i \in 1..n |-> "hi"] : n \in 0..(MsgMaxLen + 1)} \cup {<<"/me">>, <<"/me", "hi">>}

None == [cmd |-> "none", arg |-> <<>>]

\* parse_command: None unless the line starts with '/'; the rest of the line
\* after the command word is the argument
parse_command(s) ==
    IF s = <<>> \/ Head(s) \notin SlashWords
    THEN None
    ELSE [cmd |-> CASE Head(s) = "/me" -> "me"
                    [] Head(s) = "/join" -> "join"
                    [] Head(s) = "/leave" -> "leave"
                    [] Head(s) = "/roomdel" -> "roomdel"
                    [] Head(s) = "/nick" -> "nick"
                    [] OTHER -> "help",
          arg |-> Tail(s)]

(***************************************************************************)
(* ui.rs: the render loop of run.                                          *)
(***************************************************************************)
\* position of the first entry of rs with that id, 0 if there is none
position(rs, id) ==
    IF \E i \in DOMAIN rs : rs[i].id = id
    THEN CHOOSE i \in DOMAIN rs : rs[i].id = id /\ \A j \in 1..(i - 1) : rs[j].id # id
    ELSE 0

Range(s) == {s[i] : i \in DOMAIN s}

\* top of the loop: peek_tokens and draw
LoopDraw ==
    /\ c_pc = "draw" /\ running
    /\ bucket' = peek_tokens(bucket, now)
    /\ calls' = NoCalls
    /\ c_pc' = "drain"
    /\ UNCHANGED <<now, storeVars, ret, histVars, identityVars, rooms_tbl, c_local, room,
                   input, status, messages, seen_ids, rooms, running, own_sent, echoed,
                   queue, notifierVars>>

\* while app.running ends: run returns Ok
LoopExit ==
    /\ c_pc = "draw" /\ ~running
    /\ c_pc' = "done"
    /\ UNCHANGED <<now, storeVars, ret, bucket, histVars, identityVars, rooms_tbl, c_local,
                   room, input, status, messages, seen_ids, rooms, running, calls,
                   own_sent, echoed, queue, notifierVars>>

\* the append without the look-up in seen_ids
append_always(v) ==
    /\ seen_ids' = seen_ids \cup {v.id}
    /\ messages' = Append(messages, v.id)

\* an event of the current room: the message is appended unless its id is seen
append_unseen(v) ==
    IF v.id \in seen_ids
    THEN UNCHANGED <<seen_ids, messages>>
    ELSE /\ seen_ids' = seen_ids \cup {v.id}
         /\ messages' = Append(messages, v.id)

\* every entry of the sidebar gets one more unread, whatever the event's room
bump_unread_all(rs, room_id) == [i \in DOMAIN rs |-> [rs[i] EXCEPT !.unread = @ + 1]]

\* an event of another room: the entry of that room, if the sidebar has one,
\* gets one more unread
bump_unread(rs, room_id) ==
    IF position(rs, room_id) # 0
    THEN [rs EXCEPT ![position(rs, room_id)].unread = @ + 1]
    ELSE rs

\* one turn of `while let Ok(ev) = rx.try_recv()`; drained counts the turns of
\* this while loop up to MaxDrained
DrainEvent ==
    /\ c_pc = "drain" /\ queue # <<>>
    /\ queue' = Tail(queue)
    /\ drained' = Min(drained + 1, MaxDrained)
    /\ LET ev == Head(queue)
       IN  IF ev.room_id = room
           THEN \/ /\ IF message_view_by_id(messages_tbl, ev.id) = {}
                      THEN UNCHANGED <<seen_ids, messages>>
                      ELSE append_unseen(messages_tbl[ev.id])
                   /\ echoed' = IF ev.id \in own_sent THEN echoed \cup {ev.id} ELSE echoed
                   /\ UNCHANGED <<rooms, c_pc>>
                \/ \* message_view_by_id returns Err: run returns it
                   /\ c_pc' = "failed"
                   /\ UNCHANGED <<seen_ids, messages, rooms, echoed>>
           ELSE /\ rooms' = bump_unread(rooms, ev.room_id)
                /\ UNCHANGED <<seen_ids, messages, echoed, c_pc>>
    /\ UNCHANGED <<now, storeVars, ret, bucket, b_hist, identityVars, rooms_tbl, c_local,
                   room, input, status, running, calls, own_sent, notifierVars>>

\* the loop goes on to poll the input while events are still queued
DrainDone_early ==
    /\ c_pc = "drain"
    /\ c_pc' = "input"
    /\ drained' = 0
    /\ UNCHANGED <<now, storeVars, ret, bucket, b_hist, identityVars, rooms_tbl, c_local,
                   room, input, status, messages, seen_ids, rooms, running, calls,
                   own_sent, echoed, queue, notifierVars>>

\* try_recv finds the queue empty: the while loop ends
DrainDone ==
    /\ c_pc = "drain" /\ queue = <<>>
    /\ c_pc' = "input"
    /\ drained' = 0
    /\ UNCHANGED <<now, storeVars, ret, bucket, b_hist, identityVars, rooms_tbl, c_local,
                   room, input, status, messages, seen_ids, rooms, running, calls,
                   own_sent, echoed, queue, notifierVars>>

\* event::poll(200ms) times out
NoKey ==
    /\ c_pc = "input"
    /\ c_pc' = "draw"
    /\ UNCHANGED <<now, storeVars, ret, bucket, histVars, identityVars, rooms_tbl, c_local,
                   room, input, status, messages, seen_ids, rooms, running, calls,
                   own_sent, echoed, queue, notifierVars>>

(***************************************************************************)
(* ui.rs: handle_key.                                                      *)
(***************************************************************************)
KeyCtrlC ==
    /\ c_pc = "input"
    /\ running' = FALSE
    /\ calls' = called("CtrlC")
    /\ c_pc' = "draw"
    /\ UNCHANGED <<now, storeVars, ret, bucket, histVars, identityVars, rooms_tbl, c_local,
                   room, input, status, messages, seen_ids, rooms, own_sent, echoed, queue,
                   notifierVars>>

KeyEsc ==
    /\ c_pc = "input"
    /\ input' = <<>>
    /\ calls' = called("Esc")
    /\ c_pc' = "draw"
    /\ UNCHANGED <<now, storeVars, ret, bucket, histVars, identityVars, rooms_tbl, c_local,
                   room, status, messages, seen_ids, rooms, running, own_sent, echoed,
                   queue, notifierVars>>

KeyBackspace ==
    /\ c_pc = "input"
    /\ input' = IF input = <<>> THEN <<>> ELSE SubSeq(input, 1, Len(input) - 1)
    /\ calls' = called("Backspace")
    /\ c_pc' = "draw"
    /\ UNCHANGED <<now, storeVars, ret, bucket, histVars, identityVars, rooms_tbl, c_local,
                   room, status, messages, seen_ids, rooms, running, own_sent, echoed,
                   queue, notifierVars>>

\* Char: the character is pushed onto the input (L: the lines that are typed)
push_char(ch, L) ==
    /\ c_pc = "input"
    /\ Append(input, ch) \in L
    /\ input' = Append(input, ch)
    /\ calls' = called("Char")
    /\ c_pc' = "draw"
    /\ UNCHANGED <<now, storeVars, ret, bucket, histVars, identityVars, rooms_tbl, c_local,
                   room, status, messages, seen_ids, rooms, running, own_sent, echoed,
                   queue, notifierVars>>

KeyChar == \E ch \in Words : push_char(ch, Lines)

\* Enter on an empty line
EnterEmpty ==
    /\ c_pc = "input" /\ input = <<>>
    /\ status' = "empty"
    /\ input' = <<>>
    /\ calls' = called("Enter")
    /\ c_pc' = "draw"
    /\ UNCHANGED <<now, storeVars, ret, bucket, histVars, identityVars, rooms_tbl, c_local,
                   room, messages, seen_ids, rooms, running, own_sent, echoed, queue,
                   notifierVars>>

\* Enter on a line longer than msg_max_len: handle_key returns Err, run returns it
EnterTooLong ==
    /\ c_pc = "input" /\ input # <<>>
    /\ parse_command(input) = None
    /\ Len(input) > MsgMaxLen
    /\ calls' = called("Enter")
    /\ c_pc' = "failed"
    /\ UNCHANGED <<now, storeVars, ret, bucket, histVars, identityVars, rooms_tbl, c_local,
                   room, input, status, messages, seen_ids, rooms, running, own_sent,
                   echoed, queue, notifierVars>>

\* the local append without the insert into seen_ids
append_own_unmarked(m) ==
    /\ UNCHANGED seen_ids
    /\ messages' = Append(messages, m.id)
    /\ own_sent' = own_sent \cup {m.id}

\* the local append of a written message: MessageView pushed, id marked seen
append_own(m) ==
    /\ seen_ids' = seen_ids \cup {m.id}
    /\ messages' = Append(messages, m.id)
    /\ own_sent' = own_sent \cup {m.id}

\* the bucket denies the send
client_rate_limited ==
    /\ status' = "rate limited (client)"
    /\ input' = <<>>

\* the server's refusal handled like the bucket's: the line is dropped
server_rate_limited_clears ==
    /\ status' = "rate limited (server)"
    /\ input' = <<>>

\* insert_message returns Err("rate_limited")
server_rate_limited ==
    /\ status' = "rate limited (server)"
    /\ UNCHANGED input

\* Enter on a plain line: the send
EnterSend ==
    /\ c_pc = "input" /\ input # <<>>
    /\ parse_command(input) = None
    /\ Len(input) <= MsgMaxLen
    /\ LET tc == try_consume(bucket, 1, now)
       IN  /\ bucket' = tc.b
           /\ IF ~tc.ok
              THEN /\ client_rate_limited
                   /\ calls' = [try_consume |-> "denied", insert_message |-> "none",
                                key |-> "Enter"]
                   /\ c_pc' = "draw"
                   /\ UNCHANGED <<messages_tbl, notifs, seen_ids, messages, own_sent>>
              ELSE LET res == insert_message(messages_tbl, room, Me, now)
                   IN  \/ /\ res.rec = NoRow
                          /\ server_rate_limited
                          /\ calls' = [try_consume |-> "granted",
                                       insert_message |-> "rate_limited", key |-> "Enter"]
                          /\ c_pc' = "draw"
                          /\ UNCHANGED <<messages_tbl, notifs, seen_ids, messages,
                                         own_sent>>
                       \/ /\ res.rec # NoRow
                          /\ Len(res.tbl) <= MaxMsgs
                          /\ messages_tbl' = res.tbl
                          /\ notifs' = pg_notify(res.rec)
                          /\ append_own(res.rec)
                          /\ status' = "sent"
                          /\ input' = <<>>
                          /\ calls' = [try_consume |-> "granted", insert_message |-> "ok",
                                       key |-> "Enter"]
                          /\ c_pc' = "draw"
                       \/ \* any other Err of insert_message: run returns it
                          /\ calls' = [try_consume |-> "granted", insert_message |-> "error",
                                       key |-> "Enter"]
                          /\ c_pc' = "failed"
                          /\ UNCHANGED <<messages_tbl, notifs, seen_ids, messages,
                                         own_sent, input, status>>
    /\ UNCHANGED <<now, room_members, ret, histVars, identityVars, rooms_tbl, c_local, room,
                   rooms, running, echoed, queue, n_pc, backoff_secs, steps_left,
                   last_seen, rows, n_ev, fails, dropped>>

\* handle_command, Command::Me, and the input.clear() that follows an Ok
CommandMe ==
    /\ c_pc = "input" /\ input # <<>>
    /\ parse_command(input).cmd = "me"
    /\ IF parse_command(input).arg = <<>>
       THEN /\ status' = "usage: /me <action>"
            /\ input' = <<>>
            /\ calls' = called("Enter")
            /\ c_pc' = "draw"
            /\ UNCHANGED <<messages_tbl, notifs, seen_ids, messages, own_sent>>
       ELSE LET res == insert_message(messages_tbl, room, Me, now)
            IN  \/ /\ res.rec # NoRow
                   /\ Len(res.tbl) <= MaxMsgs
                   /\ messages_tbl' = res.tbl
                   /\ notifs' = pg_notify(res.rec)
                   /\ append_own(res.rec)
                   /\ status' = "me"
                   /\ input' = <<>>
                   /\ calls' = [try_consume |-> "none", insert_message |-> "ok",
                                key |-> "Enter"]
                   /\ c_pc' = "draw"
                \/ \* Err("rate_limited") is returned with `?`: run returns it
                   /\ res.rec = NoRow
                   /\ calls' = [try_consume |-> "none", insert_message |-> "rate_limited",
                                key |-> "Enter"]
                   /\ c_pc' = "failed"
                   /\ UNCHANGED <<messages_tbl, notifs, seen_ids, messages, own_sent,
                                  input, status>>
                \/ /\ calls' = [try_consume |-> "none", insert_message |-> "error",
                                key |-> "Enter"]
                   /\ c_pc' = "failed"
                   /\ UNCHANGED <<messages_tbl, notifs, seen_ids, messages, own_sent,
                                  input, status>>
    /\ UNCHANGED <<now, room_members, ret, bucket, histVars, identityVars, rooms_tbl,
                   c_local, room, rooms, running, echoed, queue, n_pc, backoff_secs,
                   steps_left, last_seen, rows, n_ev, fails, dropped>>

KeyEnter == EnterEmpty \/ EnterTooLong \/ EnterSend \/ CommandMe

\* the history is loaded, and its ids added to seen_ids without clearing it
reload_history_keeps_seen(room_id) ==
    /\ messages' \in recent_messages_view(messages_tbl, room_id, HistoryLoad)
    /\ seen_ids' = seen_ids \cup Range(messages')
    /\ own_sent' = {}
    /\ echoed' = {}

\* the room's history is loaded in place of the list: recent_messages_view,
\* seen_ids cleared and filled with the ids of the list
reload_history(room_id) ==
    /\ messages' \in recent_messages_view(messages_tbl, room_id, HistoryLoad)
    /\ seen_ids' = Range(messages')
    /\ own_sent' = {}
    /\ echoed' = {}

\* Tab: the room after the current one in the sidebar is looked up by name
\* (ensure_room_exists); its Err, room_deleted included, is returned by run
KeyTab ==
    /\ c_pc = "input"
    /\ calls' = called("Tab")
    /\ LET idx == position(rooms, room)
       IN  IF rooms = <<>> \/ idx = 0
           THEN /\ c_pc' = "draw"
                /\ UNCHANGED <<rooms_tbl, c_local>>
           ELSE LET next   == (idx % Len(rooms)) + 1
                    target == rooms[next].id
                    e == ensure_room_exists(rooms_tbl, rooms_tbl[target].name, Me)
                IN  \/ /\ e.err = ""
                       /\ rooms_tbl' = e.tbl
                       /\ c_local' = e.id
                       /\ c_pc' = "tab_upsert"
                    \/ \* Err("room_deleted") or any other Err
                       /\ c_pc' = "failed"
                       /\ UNCHANGED <<rooms_tbl, c_local>>
    /\ UNCHANGED <<now, storeVars, ret, bucket, histVars, identityVars, room, input, status,
                   messages, seen_ids, rooms, running, own_sent, echoed, queue,
                   notifierVars>>

\* Tab, after the lookup: join_room, the room becomes current, its history is
\* reloaded and its unread counter reset
TabUpsert ==
    /\ c_pc = "tab_upsert"
    /\ c_local' = 0
    /\ \/ /\ room_members' = join_room(room_members, c_local, Me)
          /\ room' = c_local
          /\ reload_history(c_local)
          /\ rooms' = IF position(rooms, c_local) # 0
                      THEN [rooms EXCEPT ![position(rooms, c_local)].unread = 0]
                      ELSE rooms
          /\ status' = "joined " \o rooms_tbl[c_local].name
          /\ c_pc' = "draw"
       \/ \* join_room returns Err
          /\ c_pc' = "failed"
          /\ UNCHANGED <<room_members, room, messages, seen_ids, rooms, status, own_sent,
                         echoed>>
       \/ \* recent_messages_view returns Err
          /\ room_members' = join_room(room_members, c_local, Me)
          /\ room' = c_local
          /\ c_pc' = "failed"
          /\ UNCHANGED <<messages, seen_ids, rooms, status, own_sent, echoed>>
    /\ UNCHANGED <<now, messages_tbl, ret, bucket, histVars, identityVars, rooms_tbl, input,
                   running, calls, queue, notifierVars>>

(***************************************************************************)
(* ui.rs: handle_command for the room commands, with the input.clear()     *)
(* that follows an Ok.                                                     *)
(***************************************************************************)
\* the argument of a command as a name: a single word, "" if there is none
\* (any name of several words has a space and is no room's name)
arg_name(arg) == IF Len(arg) = 1 THEN arg[1] ELSE IF arg = <<>> THEN "" ELSE "a b"

\* RoomEntry.name of the sidebar entry
entry_name(re) == rooms_tbl[re.id].name

\* handle_command, Command::Join: the name is validated and the room looked
\* up or created (ensure_room_exists)
CommandJoin ==
    /\ c_pc = "input" /\ input # <<>>
    /\ parse_command(input).cmd = "join"
    /\ calls' = called("Enter")
    /\ LET name == arg_name(parse_command(input).arg)
       IN  IF ~valid_room_name(name)
           THEN /\ status' = "invalid room [a-z0-9_-]{1,24}"
                /\ input' = <<>>
                /\ c_pc' = "draw"
                /\ UNCHANGED <<rooms_tbl, c_local>>
           ELSE LET e == ensure_room_exists(rooms_tbl, name, Me)
                IN  \/ /\ e.err = "room_deleted"
                       /\ status' = "room is deleted"
                       /\ input' = <<>>
                       /\ c_pc' = "draw"
                       /\ UNCHANGED <<rooms_tbl, c_local>>
                    \/ /\ e.err = ""
                       /\ rooms_tbl' = e.tbl
                       /\ c_local' = e.id
                       /\ c_pc' = "join_upsert"
                       /\ UNCHANGED <<status, input>>
                    \/ \* any other Err: run returns it
                       /\ c_pc' = "failed"
                       /\ UNCHANGED <<rooms_tbl, c_local, status, input>>
    /\ UNCHANGED <<now, storeVars, ret, bucket, histVars, identityVars, room, messages,
                   seen_ids, rooms, running, own_sent, echoed, queue, notifierVars>>

\* Command::Join, after the lookup: join_room, the room becomes current, its
\* history is reloaded, its unread counter reset, and it is added to the
\* sidebar if it is not there
JoinUpsert ==
    /\ c_pc = "join_upsert"
    /\ c_local' = 0
    /\ \/ /\ room_members' = join_room(room_members, c_local, Me)
          /\ room' = c_local
          /\ reload_history(c_local)
          /\ rooms' = IF position(rooms, c_local) # 0
                      THEN [rooms EXCEPT ![position(rooms, c_local)].unread = 0]
                      ELSE Append(rooms, [id |-> c_local, unread |-> 0])
          /\ status' = "joined"
          /\ input' = <<>>
          /\ c_pc' = "draw"
       \/ \* join_room returns Err
          /\ c_pc' = "failed"
          /\ UNCHANGED <<room_members, room, messages, seen_ids, rooms, status, input,
                         own_sent, echoed>>
       \/ \* recent_messages_view returns Err
          /\ room_members' = join_room(room_members, c_local, Me)
          /\ room' = c_local
          /\ c_pc' = "failed"
          /\ UNCHANGED <<messages, seen_ids, rooms, status, input, own_sent, echoed>>
    /\ UNCHANGED <<now, messages_tbl, ret, bucket, histVars, identityVars, rooms_tbl, running,
                   calls, queue, notifierVars>>

\* the sequence without its first element, whatever the index
remove_head(s, i) == SubSeq(s, 2, Len(s))

\* the sequence without its i-th element
remove(s, i) == SubSeq(s, 1, i - 1) \o SubSeq(s, i + 1, Len(s))

\* Command::Leave: the first entry after idx, going round, that is not the
\* room being left; 0 if there is none
leave_candidate(rs, idx, leaving_id) ==
    LET at(off) == ((idx + off) % Len(rs)) + 1
        offs == {off \in 0..(Len(rs) - 1) : rs[at(off)].id # leaving_id}
    IN  IF offs = {} THEN 0
        ELSE rs[at(CHOOSE off \in offs : \A o \in offs : off <= o)].id

\* handle_command, Command::RoomDel
CommandRoomDel ==
    /\ c_pc = "input" /\ input # <<>>
    /\ parse_command(input).cmd = "roomdel"
    /\ calls' = called("Enter")
    /\ LET name == arg_name(parse_command(input).arg)
       IN  IF ~valid_room_name(name)
           THEN /\ status' = "usage: /roomdel <name> (a-z0-9_-){1,24}"
                /\ input' = <<>>
                /\ c_pc' = "draw"
                /\ UNCHANGED <<rooms_tbl, rooms>>
           ELSE LET sd == soft_delete_room_by_creator(rooms_tbl, name, Me)
                IN  \/ /\ sd.ok
                       /\ rooms_tbl' = sd.tbl
                       /\ status' = "room '" \o name \o "' deleted"
                       /\ rooms' = list_joined_rooms(room_members, sd.tbl, Me)
                       /\ input' = <<>>
                       /\ c_pc' = "draw"
                    \/ /\ ~sd.ok
                       /\ status' = "not room creator or already deleted"
                       /\ input' = <<>>
                       /\ c_pc' = "draw"
                       /\ UNCHANGED <<rooms_tbl, rooms>>
                    \/ \* soft_delete_room_by_creator returns Err
                       /\ c_pc' = "failed"
                       /\ UNCHANGED <<rooms_tbl, rooms, status, input>>
                    \/ \* the room is deleted, then list_joined_rooms returns Err
                       /\ sd.ok
                       /\ rooms_tbl' = sd.tbl
                       /\ status' = "room '" \o name \o "' deleted"
                       /\ c_pc' = "failed"
                       /\ UNCHANGED <<rooms, input>>
    /\ UNCHANGED <<now, storeVars, ret, bucket, histVars, identityVars, c_local, room, messages,
                   seen_ids, running, own_sent, echoed, queue, notifierVars>>

\* a sidebar with no entry to focus after its only one
last_room_lt(rs) == Len(rs) < 1

\* Command::Leave: the current room has no other entry to focus
last_room(rs) == Len(rs) <= 1

\* handle_command, Command::Leave
CommandLeave ==
    /\ c_pc = "input" /\ input # <<>>
    /\ parse_command(input).cmd = "leave"
    /\ calls' = called("Enter")
    /\ LET arg         == parse_command(input).arg
           target_name == IF arg = <<>> THEN rooms_tbl[room].name ELSE arg_name(arg)
           hits        == {i \in DOMAIN rooms : entry_name(rooms[i]) = target_name}
           idx         == IF hits = {} THEN 0
                          ELSE CHOOSE i \in hits : \A j \in hits : i <= j
       IN  IF idx = 0
           THEN /\ status' = "room not in sidebar"
                /\ input' = <<>>
                /\ c_pc' = "draw"
                /\ UNCHANGED <<room_members, rooms_tbl, room, rooms, messages, seen_ids,
                               own_sent, echoed>>
           ELSE LET leaving_id == rooms[idx].id
                    left       == leave_room(room_members, leaving_id, Me)
                    next_id    == leave_candidate(rooms, idx, leaving_id)
                IN  IF leaving_id = room /\ last_room(rooms)
                    THEN /\ status' = "cannot leave the last room"
                         /\ input' = <<>>
                         /\ c_pc' = "draw"
                         /\ UNCHANGED <<room_members, rooms_tbl, room, rooms, messages,
                                        seen_ids, own_sent, echoed>>
                    ELSE IF leaving_id = room /\ next_id # 0
                    THEN LET e == ensure_room_exists(rooms_tbl, rooms_tbl[next_id].name, Me)
                         IN  \/ /\ e.err = ""
                                /\ rooms_tbl' = e.tbl
                                /\ room_members' = join_room(left.tbl, e.id, Me)
                                /\ room' = e.id
                                /\ reload_history(e.id)
                                /\ rooms' = remove(rooms, position(rooms, leaving_id))
                                /\ status' = "left '" \o target_name \o "'"
                                /\ input' = <<>>
                                /\ c_pc' = "draw"
                             \/ \* leave_room returns Err
                                /\ c_pc' = "failed"
                                /\ UNCHANGED <<room_members, rooms_tbl, room, rooms, messages,
                                               seen_ids, own_sent, echoed, status, input>>
                             \/ \* the membership is dropped, then ensure_room_exists
                                \* (room_deleted or any other Err), join_room or
                                \* recent_messages_view returns Err
                                /\ room_members' = left.tbl
                                /\ c_pc' = "failed"
                                /\ UNCHANGED <<rooms_tbl, room, rooms, messages, seen_ids,
                                               own_sent, echoed, status, input>>
                    ELSE \* a room that is not current (or no other entry to focus)
                         \/ /\ room_members' = left.tbl
                            /\ rooms' = remove(rooms, IF leaving_id = room
                                                      THEN position(rooms, leaving_id)
                                                      ELSE idx)
                            /\ status' = "left '" \o target_name \o "'"
                            /\ input' = <<>>
                            /\ c_pc' = "draw"
                            /\ UNCHANGED <<rooms_tbl, room, messages, seen_ids, own_sent,
                                           echoed>>
                         \/ \* leave_room returns Err
                            /\ c_pc' = "failed"
                            /\ UNCHANGED <<room_members, rooms_tbl, room, rooms, messages,
                                           seen_ids, own_sent, echoed, status, input>>
    /\ UNCHANGED <<now, messages_tbl, ret, bucket, histVars, identityVars, c_local, running,
                   queue, notifierVars>>

\* another session of the room's creator soft-deletes a room
ExternalRoomDel ==
    \E u \in Users, name \in ValidNames :
        LET sd == soft_delete_room_by_creator(rooms_tbl, name, u)
        IN  /\ Alive
            /\ sd.ok
            /\ rooms_tbl' = sd.tbl
            /\ UNCHANGED <<now, storeVars, ret, bucket, histVars, identityVars, c_local,
                           appVars, queue, notifierVars>>

Init ==
    /\ now = 0
    /\ bucket = TokenBucket_new(RatePerMin, 0)
    /\ b_hist = NoHist
    /\ drained = 0
    /\ InitStore /\ InitResolved /\ InitApp /\ InitNotifier

\* the transport of the subscription fails at most MaxTransportFails times
TransportFails == fails < MaxTransportFails /\ RunOnceErr

\* the operator types "hi" only
TypeHi == KeyChar /\ input' = <<"hi">>

\* time passes up to SyncMaxTime
SyncTick == now < SyncMaxTime /\ Tick

\* The session with its notifier: sends of a one-word line, Tab, events by
\* notification and by polling.
Next ==
    \/ SyncTick \/ ExternalSend
    \/ LoopDraw \/ LoopExit \/ DrainEvent \/ DrainDone \/ NoKey
    \/ KeyCtrlC \/ KeyEsc \/ KeyBackspace \/ TypeHi \/ EnterEmpty \/ EnterSend
    \/ KeyTab \/ TabUpsert
    \/ Subscribe \/ TransportFails \/ Recv \/ NotifSend \/ PollQuery \/ PollSend \/ Sleep

Spec == Init /\ [][Next]_vars

(***************************************************************************)
(* SpecRoute: messages of any user for any room reach a session that has   *)
(* joined both rooms or only the default one, over a subscription that     *)
(* stays up; the operator switches rooms with Tab.                         *)
(***************************************************************************)
\* the session with the default room as its only joined room
InitLobbyOnly ==
    /\ now = 0
    /\ bucket = TokenBucket_new(RatePerMin, 0)
    /\ b_hist = NoHist
    /\ drained = 0
    /\ messages_tbl = <<>>
    /\ room_members = <<[room_id |-> 1, user_id |-> Me]>>
    /\ ret = NoRet
    /\ users_tbl = InitUsers
    /\ rooms_tbl = InitRooms
    /\ InitResolved /\ InitNotifier /\ InitRename
    /\ room = 1
    /\ input = <<>>
    /\ status = "/help for commands"
    /\ messages = <<>>
    /\ seen_ids = {}
    /\ rooms = <<[id |-> 1, unread |-> 0]>>
    /\ running = TRUE
    /\ c_pc = "draw"
    /\ calls = NoCalls
    /\ own_sent = {}
    /\ echoed = {}
    /\ c_local = 0

NextRoute ==
    \/ ExternalSend
    \/ LoopDraw \/ DrainEvent \/ DrainDone \/ NoKey \/ KeyTab \/ TabUpsert
    \/ Subscribe \/ Recv \/ NotifSend

SpecRoute == (Init \/ InitLobbyOnly) /\ [][NextRoute]_vars

(***************************************************************************)
(* SpecSession: the session alone, every key and every line, before the    *)
(* notifier has made its first step (no event arrives).                    *)
(***************************************************************************)
NextSession ==
    \/ Tick \/ ExternalSend
    \/ LoopDraw \/ LoopExit \/ DrainDone \/ NoKey
    \/ KeyCtrlC \/ KeyEsc \/ KeyBackspace \/ KeyChar
    \/ EnterEmpty \/ EnterTooLong \/ EnterSend \/ CommandMe \/ KeyTab \/ TabUpsert

SpecSession == Init /\ [][NextSession]_vars

(***************************************************************************)
(* SpecNotifier: the notifier task with a transport that may fail at any   *)
(* time, beside a render loop that draws and drains but gets no key, and   *)
(* one message written by another client.                                  *)
(***************************************************************************)
FirstSend == messages_tbl = <<>> /\ ExternalSend

NextNotifier ==
    \/ SyncTick \/ FirstSend
    \/ LoopDraw \/ DrainEvent \/ DrainDone \/ NoKey
    \/ Subscribe \/ RunOnceErr \/ Recv \/ NotifSend \/ PollQuery \/ PollSend \/ Sleep

SpecNotifier == Init /\ [][NextNotifier]_vars

(***************************************************************************)
(* SpecForeign: SpecNotifier with other clients of the store notifying on  *)
(* the same channel.                                                       *)
(***************************************************************************)
NextForeign == NextNotifier \/ ForeignNotify

SpecForeign == Init /\ [][NextForeign]_vars

(***************************************************************************)
(* SpecLive: SpecNotifier under fair scheduling.  The render loop keeps    *)
(* turning and the notifier task keeps being scheduled (tokio runs every   *)
(* ready task); a poll query that is retried for ever succeeds at some     *)
(* time.  The transport may fail at any time, or never.                    *)
(***************************************************************************)
PollQueryOk == PollQuery /\ n_pc' = "poll_send"

SpecLive ==
    /\ Init /\ [][NextNotifier]_vars
    /\ WF_vars(LoopDraw) /\ WF_vars(DrainEvent) /\ WF_vars(DrainDone) /\ WF_vars(NoKey)
    /\ WF_vars(Subscribe) /\ WF_vars(Recv) /\ WF_vars(NotifSend)
    /\ SF_vars(PollQueryOk) /\ WF_vars(PollSend) /\ WF_vars(Sleep)

(***************************************************************************)
(* SpecIdentity: processes starting at the same time, each resolving its   *)
(* fingerprint with upsert_user_by_fp (data.rs) as main does.  The store   *)
(* runs one statement at a time; the processes interleave between their    *)
(* statements.                                                             *)
(***************************************************************************)
MaxTries == 10

Fingerprints == {"fp1", "fpA"}

\* random_handle: the candidates drawn (one is taken, one is free)
Handles == {"h1", "h3"}

\* the select without its where clause
select_user_any(tbl, fp) == DOMAIN tbl

\* select ... from users where fingerprint_sha256 = $1
select_user_by_fp(tbl, fp) == {i \in DOMAIN tbl : tbl[i].fp = fp}

\* insert into users: the table has a unique fingerprint and a unique handle;
\* a row that breaks either is refused with SQLSTATE 23505
users_insert(tbl, fp, handle) ==
    IF \E i \in DOMAIN tbl : tbl[i].fp = fp
    THEN [code |-> "23505", on |-> "fingerprint", tbl |-> tbl]
    ELSE IF \E i \in DOMAIN tbl : tbl[i].handle = handle
         THEN [code |-> "23505", on |-> "handle", tbl |-> tbl]
         ELSE [code |-> "ok", on |-> "",
               tbl |-> Append(tbl, [id |-> Len(tbl) + 1, fp |-> fp, handle |-> handle])]

\* `while tries <= 10`
RetryAllowed_le(tries) == tries <= MaxTries

\* `while tries < 10`
RetryAllowed(tries) == tries < MaxTries

InitIdentity ==
    /\ now = 0
    /\ bucket = TokenBucket_new(RatePerMin, 0)
    /\ b_hist = NoHist
    /\ drained = 0
    /\ InitStore /\ InitApp /\ InitNotifier
    /\ \E f \in [Procs -> Fingerprints] :
          resolver = [p \in Procs |-> [NoCall EXCEPT !.pc = "select", !.fp = f[p]]]

\* upsert_user_by_fp: the select by fingerprint (and the touch of last_seen_at,
\* a column the model does not keep); Ok(u) lets main go on, Err ends it
UpsertSelect(p) ==
    LET me == resolver[p]
    IN  /\ me.pc = "select"
        /\ \/ \E i \in select_user_by_fp(users_tbl, me.fp) :
                 resolver' = [resolver EXCEPT ![p].pc = "started", ![p].user = i]
           \/ /\ select_user_by_fp(users_tbl, me.fp) = {}
              /\ resolver' = [resolver EXCEPT ![p].pc = "insert"]
           \/ \* the select or the update returns Err
              resolver' = [resolver EXCEPT ![p].pc = "aborted", ![p].err = "store"]
        /\ UNCHANGED <<now, storeVars, ret, bucket, histVars, users_tbl, rooms_tbl, c_local,
                       renameVars, joiner,
                       appVars, queue, notifierVars>>

\* upsert_user_by_fp: one turn of the retry loop, an insert with a fresh handle
UpsertInsert(p) ==
    LET me == resolver[p]
    IN  /\ me.pc = "insert"
        /\ \/ \E h \in Handles :
                 LET r == users_insert(users_tbl, me.fp, h)
                 IN  /\ users_tbl' = r.tbl
                     /\ IF r.code = "ok"
                        THEN resolver' = [resolver EXCEPT ![p].pc = "started",
                                                          ![p].attempts = @ + 1,
                                                          ![p].user = Len(r.tbl)]
                        ELSE \* is_unique: tries += 1; continue
                             resolver' =
                                 [resolver EXCEPT
                                    ![p].tries = @ + 1,
                                    ![p].attempts = @ + 1,
                                    ![p].fp_conflict = @ \/ r.on = "fingerprint",
                                    ![p].handle_conflicts =
                                        IF r.on = "handle" THEN @ + 1 ELSE @,
                                    ![p].pc = IF RetryAllowed(me.tries + 1)
                                              THEN "insert" ELSE "aborted",
                                    ![p].err = IF RetryAllowed(me.tries + 1)
                                               THEN "" ELSE "retries"]
           \/ \* any other Err of the insert: return Err(e.into())
              /\ resolver' = [resolver EXCEPT ![p].pc = "aborted", ![p].attempts = @ + 1,
                                              ![p].err = "store"]
              /\ UNCHANGED users_tbl
        /\ UNCHANGED <<now, storeVars, ret, bucket, histVars, rooms_tbl, c_local, appVars,
                       renameVars, joiner,
                       queue, notifierVars>>

Upsert(p) == UpsertSelect(p) \/ UpsertInsert(p)

NextIdentity == \E p \in Procs : Upsert(p)

\* every process keeps running until its call returns
SpecIdentity == InitIdentity /\ [][NextIdentity]_vars /\ \A p \in Procs : WF_vars(Upsert(p))

(***************************************************************************)
(* SpecRooms: the session alone with the room commands (/join, /leave,     *)
(* /roomdel) and Tab, while another user writes messages and the rooms'    *)
(* creators, in other sessions, delete rooms.  No event arrives.           *)
(***************************************************************************)
TypedNames == {"dev", "temp", "BAD"}
RoomCommands == {"/join", "/leave", "/roomdel"}

\* the command lines the operator types (with all their prefixes)
RoomLines == {<<c>> : c \in RoomCommands} \cup {<<c, n>> : c \in RoomCommands, n \in TypedNames}

TypeRoomWord == \E ch \in RoomCommands \cup TypedNames : push_char(ch, RoomLines)

\* a message written by a client of the other user
OtherSend == ExternalSend /\ messages_tbl'[Len(messages_tbl')].user_id # Me

NextRooms ==
    \/ OtherSend \/ ExternalRoomDel
    \/ LoopDraw \/ DrainDone \/ NoKey \/ TypeRoomWord
    \/ CommandJoin \/ JoinUpsert \/ CommandLeave \/ CommandRoomDel \/ KeyTab \/ TabUpsert

SpecRooms == Init /\ [][NextRooms]_vars

\* the session after a message of the other user for the room that is not
\* current has been written and its event drained: the room is unread
InitUnread ==
    /\ now = 0
    /\ bucket = TokenBucket_new(RatePerMin, 0)
    /\ b_hist = NoHist
    /\ drained = 0
    /\ messages_tbl = insert_message(<<>>, 2, 2, 0).tbl
    /\ room_members = <<[room_id |-> 1, user_id |-> Me], [room_id |-> 2, user_id |-> Me]>>
    /\ ret = NoRet
    /\ users_tbl = InitUsers
    /\ rooms_tbl = InitRooms
    /\ InitResolved /\ InitNotifier /\ InitRename
    /\ room = 1
    /\ input = <<>>
    /\ status = "/help for commands"
    /\ messages = <<>>
    /\ seen_ids = {}
    /\ rooms = <<[id |-> 1, unread |-> 0], [id |-> 2, unread |-> 1]>>
    /\ running = TRUE
    /\ c_pc = "draw"
    /\ calls = NoCalls
    /\ own_sent = {}
    /\ echoed = {}
    /\ c_local = 0

\* SpecLeave: the room commands, from a session with all rooms read or with
\* an unread room
SpecLeave == (Init \/ InitUnread) /\ [][NextRooms]_vars

(***************************************************************************)
(* SpecHistory: the session starts on a store that already holds messages  *)
(* (any history the rate gate accepts), with the second room joined or     *)
(* not, read or not, and the operator joins rooms and switches with Tab.   *)
(***************************************************************************)
HistLen == 3
HistTime == 1

\* the message tables that insert_message builds in HistLen calls or fewer
Histories ==
    LET table(n, rs, us, ts) ==
            [i \in 1..n |-> [id |-> i, room_id |-> rs[i], user_id |-> us[i],
                             created_at |-> ts[i]]]
        accepted(h) ==
            \A i \in DOMAIN h :
                /\ i > 1 => h[i - 1].created_at <= h[i].created_at
                /\ insert_message(SubSeq(h, 1, i - 1), h[i].room_id, h[i].user_id,
                                  h[i].created_at).tbl = SubSeq(h, 1, i)
    IN  UNION {{h \in {table(n, rs, us, ts) : rs \in [1..n -> Rooms], us \in [1..n -> Users],
                                             ts \in [1..n -> 0..HistTime]} : accepted(h)} :
               n \in 0..HistLen}

InitHistory ==
    /\ now = HistTime
    /\ bucket = TokenBucket_new(RatePerMin, 0)
    /\ b_hist = NoHist
    /\ drained = 0
    /\ messages_tbl \in Histories
    /\ ret = NoRet
    /\ users_tbl = InitUsers
    /\ rooms_tbl = InitRooms
    /\ InitResolved /\ InitNotifier /\ InitRename
    /\ room = 1
    /\ messages \in recent_messages_view(messages_tbl, 1, HistoryLoad)
    /\ seen_ids = Range(messages)
    /\ \/ /\ room_members = <<[room_id |-> 1, user_id |-> Me], [room_id |-> 2, user_id |-> Me]>>
          /\ \E u \in 0..1 :
                /\ u <= Cardinality({i \in DOMAIN messages_tbl : messages_tbl[i].room_id = 2})
                /\ rooms = <<[id |-> 1, unread |-> 0], [id |-> 2, unread |-> u]>>
       \/ /\ room_members = <<[room_id |-> 1, user_id |-> Me]>>
          /\ rooms = <<[id |-> 1, unread |-> 0]>>
    /\ input = <<>>
    /\ status = "/help for commands"
    /\ running = TRUE
    /\ c_pc = "draw"
    /\ calls = NoCalls
    /\ own_sent = {}
    /\ echoed = {}
    /\ c_local = 0

JoinNames == {"dev", "temp"}
JoinLines == {<<"/join">>} \cup {<<"/join", n>> : n \in JoinNames}

TypeJoinWord == \E ch \in {"/join"} \cup JoinNames : push_char(ch, JoinLines)

NextHistory ==
    \/ LoopDraw \/ DrainDone \/ NoKey \/ TypeJoinWord
    \/ CommandJoin \/ JoinUpsert \/ KeyTab \/ TabUpsert

SpecHistory == InitHistory /\ [][NextHistory]_vars

(***************************************************************************)
(* SpecRename: data.rs change_handle and ui.rs Command::Nick.  Client 1 is *)
(* the session, whose loop waits for its call of change_handle; the other  *)
(* clients are sessions of any user calling change_handle meanwhile.  The  *)
(* store runs each call as a transaction: its writes are seen at commit,   *)
(* `select ... for update` holds the user's row until the transaction      *)
(* ends, and the unique index on users.handle makes an update wait for a   *)
(* transaction in progress that holds or vacates the handle.               *)
(***************************************************************************)
MaxRenames == 3

ValidNicks == {"h1", "h2", "h3", "h4"}

\* nick.rs valid_nick
valid_nick(name) == name \in ValidNicks

\* the transaction of q holds the row lock of user u
holds_row(q, u) == renamer[q].pc \in {"update", "audit", "commit"} /\ renamer[q].user = u

\* the transaction of q, on another user, has an uncommitted update that
\* puts h in the index or takes it out
index_pending(q, u, h) ==
    /\ renamer[q].pc \in {"audit", "commit"} /\ renamer[q].user # u
    /\ renamer[q].new = h \/ users_tbl[renamer[q].user].handle = h

renameFrame ==
    UNCHANGED <<now, storeVars, ret, bucket, histVars, resolver, joiner, rooms_tbl, c_local,
                room, messages, seen_ids, rooms, running, own_sent, echoed, queue,
                notifierVars>>

\* pool.begin()
TxBegin(p, u, new) ==
    /\ renamer[p].pc = "idle"
    /\ Len(name_changes) < MaxRenames
    /\ renamer' = [renamer EXCEPT ![p] = [pc |-> "select", user |-> u, new |-> new,
                                          old |-> ""]]

\* select ... from users where id=$1 for update
TxSelect(p) ==
    /\ renamer[p].pc = "select"
    /\ \A q \in Procs \ {p} : ~holds_row(q, renamer[p].user)
    /\ renamer' = [renamer EXCEPT ![p].pc = "update",
                                  ![p].old = users_tbl[renamer[p].user].handle]
    /\ UNCHANGED <<users_tbl, name_changes, app_user, c_pc, input, status, calls>>
    /\ renameFrame

\* update users set handle=$1 where id=$2: Err 23505 if another user has the handle
TxUpdate(p) ==
    LET me == renamer[p]
    IN  /\ me.pc = "update"
        /\ \A q \in Procs \ {p} : ~index_pending(q, me.user, me.new)
        /\ renamer' = [renamer EXCEPT ![p].pc =
                          IF \E v \in DOMAIN users_tbl :
                                v # me.user /\ users_tbl[v].handle = me.new
                          THEN "conflict" ELSE "audit"]
        /\ UNCHANGED <<users_tbl, name_changes, app_user, c_pc, input, status, calls>>
        /\ renameFrame

\* insert into name_changes(user_id, old_handle, new_handle)
TxAudit(p) ==
    /\ renamer[p].pc = "audit"
    /\ renamer' = [renamer EXCEPT ![p].pc = "commit"]
    /\ UNCHANGED <<users_tbl, name_changes, app_user, c_pc, input, status, calls>>
    /\ renameFrame

\* a transaction dropped without commit, after its update, whose update stays
TxFail_update_stays(p) ==
    LET me == renamer[p]
    IN  /\ me.pc \in {"select", "update", "audit", "commit"}
        /\ renamer' = [renamer EXCEPT ![p].pc = "error"]
        /\ users_tbl' = IF me.pc \in {"audit", "commit"}
                        THEN [users_tbl EXCEPT ![me.user].handle = me.new]
                        ELSE users_tbl
        /\ UNCHANGED <<name_changes, app_user, c_pc, input, status, calls>>
        /\ renameFrame

\* a statement or the commit returns Err: `?` drops the transaction, which
\* rolls it back
TxFail(p) ==
    /\ renamer[p].pc \in {"select", "update", "audit", "commit"}
    /\ renamer' = [renamer EXCEPT ![p].pc = "error"]
    /\ UNCHANGED <<users_tbl, name_changes, app_user, c_pc, input, status, calls>>
    /\ renameFrame

\* tx.commit(): the update and the audit row are seen together
TxCommit(p) ==
    LET me == renamer[p]
    IN  /\ me.pc = "commit"
        /\ users_tbl' = [users_tbl EXCEPT ![me.user].handle = me.new]
        /\ name_changes' = Append(name_changes, [user_id |-> me.user, old_handle |-> me.old,
                                                 new_handle |-> me.new])
        /\ renamer' = [renamer EXCEPT ![p].pc = "ok"]
        /\ UNCHANGED <<app_user, c_pc, input, status, calls>>
        /\ renameFrame

\* change_handle, one step of the call of client p
change_handle(p) == TxSelect(p) \/ TxUpdate(p) \/ TxAudit(p) \/ TxCommit(p) \/ TxFail(p)

\* another session calls change_handle for its user
ExternalRename ==
    \E p \in Procs \ {1}, u \in Users, new \in ValidNicks :
        /\ Alive
        /\ TxBegin(p, u, new)
        /\ UNCHANGED <<users_tbl, name_changes, app_user, c_pc, input, status, calls>>
        /\ renameFrame

\* the call of another session returns
ExternalReturn ==
    \E p \in Procs \ {1} :
        /\ renamer[p].pc \in {"ok", "conflict", "error"}
        /\ renamer' = [renamer EXCEPT ![p] = NoRename]
        /\ UNCHANGED <<users_tbl, name_changes, app_user, c_pc, input, status, calls>>
        /\ renameFrame

\* handle_command, Command::Nick: the name is validated and change_handle called
CommandNick ==
    /\ c_pc = "input" /\ input # <<>>
    /\ parse_command(input).cmd = "nick"
    /\ calls' = called("Enter")
    /\ LET new == arg_name(parse_command(input).arg)
       IN  IF ~valid_nick(new)
           THEN /\ status' = "invalid nick [a-z0-9_-]{2,16}"
                /\ input' = <<>>
                /\ c_pc' = "draw"
                /\ UNCHANGED renamer
           ELSE /\ TxBegin(1, Me, new)
                /\ c_pc' = "nick"
                /\ UNCHANGED <<status, input>>
    /\ UNCHANGED <<users_tbl, name_changes, app_user>>
    /\ renameFrame

\* Command::Nick where the arm of the unique violation returns the error
NickReturn_fatal ==
    /\ c_pc = "nick"
    /\ renamer[1].pc \in {"ok", "conflict", "error"}
    /\ renamer' = [renamer EXCEPT ![1] = NoRename]
    /\ \/ /\ renamer[1].pc = "ok"
          /\ app_user' = renamer[1].new
          /\ status' = "nick changed"
          /\ input' = <<>>
          /\ c_pc' = "draw"
       \/ /\ renamer[1].pc = "conflict"
          /\ c_pc' = "failed"
          /\ UNCHANGED <<app_user, status, input>>
       \/ /\ renamer[1].pc = "error"
          /\ status' = "nick error"
          /\ input' = <<>>
          /\ c_pc' = "draw"
          /\ UNCHANGED app_user
    /\ UNCHANGED <<users_tbl, name_changes, calls>>
    /\ renameFrame

\* Command::Nick, after change_handle has returned: Ok(updated), the unique
\* violation 23505, or any other Err
NickReturn ==
    /\ c_pc = "nick"
    /\ renamer[1].pc \in {"ok", "conflict", "error"}
    /\ renamer' = [renamer EXCEPT ![1] = NoRename]
    /\ \/ /\ renamer[1].pc = "ok"
          /\ app_user' = renamer[1].new
          /\ status' = "nick changed"
       \/ /\ renamer[1].pc = "conflict"
          /\ status' = "nick taken"
          /\ UNCHANGED app_user
       \/ /\ renamer[1].pc = "error"
          /\ status' = "nick error"
          /\ UNCHANGED app_user
    /\ input' = <<>>
    /\ c_pc' = "draw"
    /\ UNCHANGED <<users_tbl, name_changes, calls>>
    /\ renameFrame

NickWords == {"h2", "h3", "h4", "X"}
NickLines == {<<"/nick">>} \cup {<<"/nick", n>> : n \in NickWords}

TypeNickWord == \E ch \in {"/nick"} \cup NickWords : push_char(ch, NickLines)

NextRename ==
    \/ LoopDraw \/ DrainDone \/ NoKey \/ TypeNickWord
    \/ CommandNick \/ NickReturn
    \/ ExternalRename \/ ExternalReturn
    \/ \E p \in Procs : change_handle(p)

SpecRename == Init /\ [][NextRename]_vars

(***************************************************************************)
(* SpecJoin: clients of any user call join_room for any room, in any       *)
(* order.                                                                  *)
(***************************************************************************)
\* one call of join_room; ret notes the pair, the number of its rows before
\* the call and after it
JoinRoomCall(u, r) ==
    LET rows_of(tbl) == Cardinality({i \in DOMAIN tbl :
                                        tbl[i].room_id = r /\ tbl[i].user_id = u})
    IN  /\ room_members' = join_room(room_members, r, u)
        /\ ret' = [res   |-> "ok",
                   user  |-> u,
                   count |-> rows_of(room_members),
                   rows  |-> rows_of(room_members')]
        /\ UNCHANGED <<now, messages_tbl, bucket, histVars, identityVars, rooms_tbl, c_local,
                       appVars, queue, notifierVars>>

\* a client creates a room that is not there yet
EnsureRoomCall(u, name) ==
    LET e == ensure_room_exists(rooms_tbl, name, u)
    IN  /\ e.err = "" /\ e.tbl # rooms_tbl
        /\ rooms_tbl' = e.tbl
        /\ UNCHANGED <<now, storeVars, ret, bucket, histVars, identityVars, c_local, appVars,
                       queue, notifierVars>>

NextJoin ==
    \/ \E u \in Users, r \in DOMAIN rooms_tbl : JoinRoomCall(u, r)
    \/ \E u \in Users, name \in ValidNames : EnsureRoomCall(u, name)

SpecJoin == Init /\ [][NextJoin]_vars

(***************************************************************************)
(* SpecMembers: clients of any user call join_room and leave_room for any  *)
(* room, in any order.                                                     *)
(***************************************************************************)
\* one call of leave_room; ret notes the pair and what the call returned
LeaveRoomCall(u, r) ==
    LET left == leave_room(room_members, r, u)
    IN  /\ room_members' = left.tbl
        /\ ret' = [res  |-> IF left.dropped THEN "dropped" ELSE "kept",
                   user |-> u,
                   room |-> r]
        /\ UNCHANGED <<now, messages_tbl, bucket, histVars, identityVars, rooms_tbl, c_local,
                       appVars, queue, notifierVars>>

NextMembers ==
    \/ \E u \in Users, r \in DOMAIN rooms_tbl : JoinRoomCall(u, r)
    \/ \E u \in Users, r \in DOMAIN rooms_tbl : LeaveRoomCall(u, r)
    \/ \E u \in Users, name \in ValidNames : EnsureRoomCall(u, name)

SpecMembers == Init /\ [][NextMembers]_vars

(***************************************************************************)
(* The claims.                                                             *)
(***************************************************************************)
Count(id, s) == Cardinality({i \in DOMAIN s : s[i] = id})

\* C1: insert_message for a user with `limit` messages in the trailing minute
\* writes no row and returns rate-limited, with fewer it writes exactly one
\* row; hence no user ever has more than `limit` messages created within any
\* span of one minute.
C1_ServerGate ==
    /\ ret.res # "none" =>
          /\ ret.count >= RatePerMin => ret.res = "rate_limited" /\ ret.rows = 0
          /\ ret.count < RatePerMin => ret.res = "ok" /\ ret.rows = 1
    /\ \A u \in Users, t \in 0..(MaxTime + 1) :
          Cardinality({i \in DOMAIN messages_tbl :
                          /\ messages_tbl[i].user_id = u
                          /\ messages_tbl[i].created_at <= t
                          /\ t - messages_tbl[i].created_at < TicksPerMinute}) <= RatePerMin

\* C1 witness: a call by a user with `limit` messages in the trailing minute
\* has been refused.
C1_Witness ==
    /\ ret.res = "rate_limited" /\ ret.count = RatePerMin
    /\ Cardinality({i \in DOMAIN messages_tbl : messages_tbl[i].user_id = ret.user}) >= RatePerMin

\* C2: in a Send and in /me alike, insert_message is called if and only if
\* the token bucket granted a token in that intent.
C2_WriteIffGranted ==
    (calls.insert_message # "none") <=> (calls.try_consume = "granted")

\* C3: at the time a bucket of rate r is created no more than r consumes
\* succeed; a try_consume(1) that fails with no time elapsed leaves the token
\* count as it was; a try_consume(1) made 60/r seconds or more after the last
\* successful one succeeds; the token count never exceeds the capacity r.
C3_TokenBucket ==
    /\ bucket.capacity = bucket.rate * TicksPerMinute
    /\ bucket.tokens <= bucket.capacity
    /\ now = 0 => b_hist.taken <= bucket.rate
    /\ (~b_hist.try.ok /\ b_hist.try.dt = 0) => b_hist.try.kept
    /\ bucket.rate * b_hist.try.since >= TicksPerMinute => b_hist.try.ok

\* C3 witness: the bucket was emptied at once, the next consume was refused,
\* and a consume made 60/r seconds after the last one has succeeded.
C3_Witness ==
    /\ b_hist.denied0
    /\ b_hist.taken = bucket.rate + 1
    /\ b_hist.try.ok
    /\ bucket.rate * b_hist.try.since >= TicksPerMinute
    /\ bucket.rate * (b_hist.try.since - 1) < TicksPerMinute

SendRefusedByServer ==
    /\ c_pc = "input"
    /\ calls'.try_consume = "granted" /\ calls'.insert_message = "rate_limited"

SendRefusedByBucket == c_pc = "input" /\ calls'.try_consume = "denied"

\* C4: a Send the server gate refuses is not fatal: the session keeps
\* running, the loaded list is as before and the typed line stays in the
\* input buffer.
C4_ServerRefusalKeepsInput ==
    [][SendRefusedByServer =>
          /\ c_pc' = "draw" /\ running'
          /\ messages' = messages
          /\ input' = input /\ input' # <<>>
          /\ status' = "rate limited (server)"]_vars

\* C4 witness: the server gate has refused a Send and the line is still there.
C4_Witness ==
    /\ calls = [try_consume |-> "granted", insert_message |-> "rate_limited",
                key |-> "Enter"]
    /\ c_pc = "draw" /\ input = <<"hi">>

\* C5: a Send refused by the bucket or by the server gate changes nothing of
\* the session but the status: list, seen ids, current room, joined rooms,
\* input and (but for the refill) the token count are as before.
C5_RefusedSendChangesOnlyStatus ==
    [][(SendRefusedByBucket \/ SendRefusedByServer) =>
          /\ UNCHANGED <<messages, seen_ids, room, rooms, input>>
          /\ bucket'.tokens = refill(bucket, now).tokens]_vars

\* C6: a message the session wrote and appended is in the loaded list exactly
\* once while its room stays current, whatever events arrive for its id.
C6_OwnMessageOnce == \A id \in own_sent : Count(id, messages) = 1

\* C6 witness: an event for a message the session wrote has been drained
\* while its room was current.
C6_Witness == \E id \in echoed : id \in own_sent /\ Count(id, messages) = 1

\* C7: the notifier never waits for room in the queue: whenever it has an
\* event to forward, its send can be done at once.
C7_NotifierNeverWaits ==
    (Alive /\ (n_pc = "send" \/ (n_pc = "poll_send" /\ rows # <<>>)))
        => ENABLED (NotifSend \/ PollSend)

\* C8: whenever the subscription is open the backoff counter is at its
\* minimum, 1.
C8_SuccessResetsBackoff == Listening => backoff_secs = 1

ClaimedBackoff == <<1, 2, 4, 8, 16, 30, 30>>

Polling == n_pc \in {"poll", "poll_send", "poll_err", "sleep"}

\* C9: during the polling that follows the k-th failed run_once the backoff is
\* the k-th of 1, 2, 4, 8, 16, 30, 30, ... and after it the (k+1)-th; every
\* polling period ends in a new run_once.
C9_BackoffSequence ==
    /\ [](backoff_secs = ClaimedBackoff[Min(IF Polling THEN fails ELSE fails + 1,
                                            Len(ClaimedBackoff))])
    /\ [][(Polling /\ ~Polling') => n_pc' = "run_once"]_vars

\* C9 witness: the backoff has stayed at 30 over a further failure.
C9_Witness == fails = MaxFails /\ backoff_secs = 30 /\ n_pc = "run_once"

\* C10: the notifier never stops and changes nothing of the session; an error
\* of run_once starts a polling period of at least one step, which ends in a
\* new run_once; a failed poll query leaves last_seen as it was and the
\* polling loop where it was.
C10_NotifierAbsorbsErrors ==
    /\ [](n_pc \in {"run_once", "recv", "send", "poll", "poll_send", "poll_err", "sleep"})
    /\ [][n_pc' # n_pc => UNCHANGED <<c_pc, status, running, input, room>>]_vars
    /\ [][(~Polling /\ Polling') => n_pc' = "poll" /\ steps_left' >= 1]_vars
    /\ [][(Polling /\ ~Polling') => n_pc' = "run_once"]_vars
    /\ [][n_pc' = "poll_err" =>
             last_seen' = last_seen /\ steps_left' = steps_left /\ steps_left' >= 1]_vars
    /\ [][n_pc = "poll_err" =>
             n_pc' \in {"poll_err", "poll", "run_once"} /\ last_seen' = last_seen]_vars

\* C10 witness: a poll query has failed while a message newer than last_seen
\* was in the store.
C10_Witness ==
    /\ n_pc = "poll_err" /\ Alive
    /\ \E i \in DOMAIN messages_tbl : messages_tbl[i].created_at > last_seen

\* C11: a notification that does not parse, or whose tag is not "msg", is
\* dropped: the step that receives it enqueues nothing, prepares no event and
\* leaves the notifier subscribed, and a well-formed one received at any time,
\* also after a drop, becomes the event to send.
C11_MalformedDropped ==
    [][(n_pc = "recv" /\ notifs # <<>> /\ notifs' = Tail(notifs) /\ n_pc' # "poll")
          => IF Head(notifs).json /\ Head(notifs).t = "msg"
             THEN /\ n_pc' = "send"
                  /\ n_ev' = [id |-> Head(notifs).id, room_id |-> Head(notifs).room_id]
             ELSE /\ n_pc' = "recv"
                  /\ UNCHANGED <<queue, n_ev, appVars, backoff_secs, last_seen>>]_vars

\* C11 witness: in a subscription that has dropped a notification, a later
\* well-formed one has been received and is about to be sent.
C11_Witness == dropped /\ n_pc = "send" /\ n_ev.id \in DOMAIN messages_tbl

\* C12: under fair scheduling every message created in the session's current
\* room is eventually in the loaded list (unless the session has ended or
\* has left that room).
C12_EventuallyLoaded ==
    \A i \in 1..MaxMsgs :
        [](i \in DOMAIN messages_tbl /\ messages_tbl[i].room_id = room
              => <>(\/ i \in Range(messages)
                    \/ ~Alive
                    \/ i \in DOMAIN messages_tbl /\ messages_tbl[i].room_id # room))

\* C13: however the calls of upsert_user_by_fp interleave, there is never more
\* than one user row per fingerprint; once every call for a fingerprint has
\* returned, each with a user or after losing the race for the fingerprint,
\* there is exactly one row for it; a call that returns a user returns the
\* row of its fingerprint.
C13_OneUserPerFingerprint ==
    /\ [](\A f \in Fingerprints :
             Cardinality({i \in DOMAIN users_tbl : users_tbl[i].fp = f}) <= 1)
    /\ [](\A f \in Fingerprints :
             (/\ \E p \in Procs : resolver[p].fp = f
              /\ \A p \in Procs : resolver[p].fp = f =>
                    \/ resolver[p].pc = "started"
                    \/ resolver[p].pc = "aborted" /\ resolver[p].fp_conflict)
             => Cardinality({i \in DOMAIN users_tbl : users_tbl[i].fp = f}) = 1)
    /\ [](\A p \in Procs : resolver[p].pc = "started" =>
             /\ resolver[p].user \in DOMAIN users_tbl
             /\ users_tbl[resolver[p].user].fp = resolver[p].fp)

\* C13 witness: two calls for the same unknown fingerprint have both passed
\* the select before either inserted, and both have returned.
C13_Witness ==
    /\ \A p \in Procs : resolver[p].fp = "fpA" /\ resolver[p].attempts >= 1
    /\ \A p \in Procs : resolver[p].pc \in {"started", "aborted"} /\ resolver[p].err # "store"
    /\ \E p \in Procs : resolver[p].pc = "started"

\* C14: a call whose insert was refused because the fingerprint was already
\* there returns that user: it does not end in the retries-exhausted error.
C14_LostRaceRereads ==
    \A p \in Procs :
        (resolver[p].fp_conflict /\ resolver[p].pc \in {"started", "aborted"}
             /\ resolver[p].err # "store")
        => resolver[p].pc = "started"

\* C15: a call makes at most 10 insert attempts; a conflict is followed by
\* another attempt until the 10th, which ends the call and the start-up; a
\* store failure ends it at once; every call returns.
C15_BoundedRetries ==
    /\ [](\A p \in Procs :
             /\ resolver[p].attempts <= MaxTries
             /\ resolver[p].tries <= MaxTries
             /\ resolver[p].err = "retries" =>
                   resolver[p].pc = "aborted" /\ resolver[p].tries = MaxTries
             /\ resolver[p].pc = "insert" => resolver[p].tries < MaxTries)
    /\ [][\A p \in Procs :
             /\ resolver'[p].tries > resolver[p].tries =>
                   resolver'[p].pc = IF resolver[p].tries + 1 < MaxTries
                                     THEN "insert" ELSE "aborted"
             /\ resolver'[p].err = "store" /\ resolver[p].err # "store" =>
                   resolver'[p].pc = "aborted" /\ resolver'[p].tries = resolver[p].tries
             /\ resolver[p].pc \in {"started", "aborted"} => resolver'[p] = resolver[p]]_vars
    /\ <>(\A p \in Procs : resolver[p].pc \in {"started", "aborted"})

\* C15 witness: ten handle conflicts in a row have ended a call for a new
\* fingerprint.
C15_Witness ==
    \E p \in Procs :
        /\ resolver[p].handle_conflicts = MaxTries /\ resolver[p].attempts = MaxTries
        /\ resolver[p].pc = "aborted" /\ resolver[p].err = "retries"

\* C16: every join_room call succeeds and leaves exactly one membership row
\* for its pair, whether the pair was a member before or not; no pair ever
\* has two rows; a call changes the rows of no other pair (it only moves its
\* own pair to the front of the last-joined order).
C16_JoinIdempotent ==
    /\ [](\A u \in Users, r \in DOMAIN rooms_tbl :
             Cardinality({i \in DOMAIN room_members :
                             room_members[i].room_id = r /\ room_members[i].user_id = u}) <= 1)
    /\ [](ret # NoRet => ret.res = "ok" /\ ret.rows = 1 /\ ret.count \in {0, 1})
    /\ [][Len(room_members') >= 1
             /\ LET first == room_members'[1]
                    other(m) == m # first
                IN  SelectSeq(room_members', other) = SelectSeq(room_members, other)]_vars

\* C16 witness: a pair that was a member has joined again, after another pair
\* joined in between.
C16_Witness ==
    /\ ret # NoRet /\ ret.count = 1 /\ ret.rows = 1
    /\ Len(room_members) >= 4
    /\ room_members[1].user_id = 2 /\ room_members[2].user_id = Me

(***************************************************************************)
(* Room commands (SpecRooms).                                              *)
(***************************************************************************)
\* the step is handle_key for Enter
EnterStep == c_pc = "input" /\ calls'.key = "Enter"

\* the step is handle_key for Enter on a line that parses to the command
EnterCommand(cmd) == EnterStep /\ input # <<>> /\ parse_command(input).cmd = cmd

\* the store has a soft-deleted room of that name
DeletedNamed(name) ==
    \E i \in DOMAIN rooms_tbl : rooms_tbl[i].name = name /\ rooms_tbl[i].is_deleted

\* C17: a Join that names a soft-deleted room, the store answering, sets the
\* status "room is deleted" and changes neither the rooms, nor the
\* memberships, nor the session's current room, messages, seen ids and
\* sidebar; and no step ever reopens a deleted room or makes a second room of
\* a name.
C17_JoinDeletedRefused ==
    /\ [][(/\ EnterCommand("join")
           /\ DeletedNamed(arg_name(parse_command(input).arg))
           /\ c_pc' # "failed")
          => (/\ status' = "room is deleted"
              /\ c_pc' = "draw"
              /\ UNCHANGED <<rooms_tbl, room_members, room, messages, seen_ids, rooms>>)]_vars
    /\ [][/\ \A i \in DOMAIN rooms_tbl :
                /\ i \in DOMAIN rooms_tbl'
                /\ rooms_tbl'[i].name = rooms_tbl[i].name
                /\ rooms_tbl[i].is_deleted => rooms_tbl'[i].is_deleted
          /\ \A i, j \in DOMAIN rooms_tbl' :
                rooms_tbl'[i].name = rooms_tbl'[j].name => i = j]_vars

\* C17 witness: the session created a room, deleted it, and its Join of the
\* room has just been refused
C17_Witness ==
    /\ c_pc = "draw" /\ calls.key = "Enter"
    /\ status = "room is deleted"
    /\ \E i \in DOMAIN rooms_tbl :
          /\ rooms_tbl[i].name = "temp" /\ rooms_tbl[i].created_by = Me
          /\ rooms_tbl[i].is_deleted
    /\ \A i \in DOMAIN room_members : rooms_tbl[room_members[i].room_id].name # "temp"

\* C18: no step writes a membership (join_room puts the pair first in
\* room_members) for a room that is soft-deleted when the step is taken, and
\* no step makes such a room the session's current room.
C18_NoJoinOfDeletedRoom ==
    /\ [][(/\ room_members' # room_members
           /\ Len(room_members') >= Len(room_members))
          => ~rooms_tbl[room_members'[1].room_id].is_deleted]_vars
    /\ [][room' # room => ~rooms_tbl[room'].is_deleted]_vars

\* C20: a Leave that names the current room (or no room) while the current
\* room is the only entry of the sidebar sets the status "cannot leave the
\* last room" and changes neither the memberships nor the session's current
\* room, sidebar, messages and seen ids.
C20_LastRoomKept ==
    [][(/\ EnterCommand("leave")
        /\ Len(rooms) = 1 /\ rooms[1].id = room
        /\ LET arg == parse_command(input).arg
           IN  arg = <<>> \/ arg_name(arg) = rooms_tbl[room].name)
       => (/\ status' = "cannot leave the last room"
           /\ c_pc' = "draw"
           /\ UNCHANGED <<room_members, rooms_tbl, room, rooms, messages, seen_ids>>)]_vars

\* C20 witness: the Leave of the only joined room, which has messages loaded,
\* has just been refused and the membership is still in the store
C20_Witness ==
    /\ c_pc = "draw" /\ calls.key = "Enter"
    /\ status = "cannot leave the last room"
    /\ Len(rooms) = 1 /\ rooms[1].id = room
    /\ messages # <<>>
    /\ \E i \in DOMAIN room_members :
          room_members[i].room_id = room /\ room_members[i].user_id = Me

\* ms lists, oldest first, the newest HistoryLoad messages of room r
IsRecentHistory(ms, r) ==
    LET of_room == {i \in DOMAIN messages_tbl : messages_tbl[i].room_id = r}
    IN  /\ Len(ms) = Min(HistoryLoad, Cardinality(of_room))
        /\ \A i \in DOMAIN ms : ms[i] \in of_room
        /\ \A i, j \in DOMAIN ms :
              i < j => /\ ms[i] # ms[j]
                       /\ messages_tbl[ms[i]].created_at <= messages_tbl[ms[j]].created_at
        /\ \A k \in of_room \ Range(ms) :
              \A i \in DOMAIN ms : messages_tbl[k].created_at <= messages_tbl[ms[i]].created_at

\* C19: when a Join completes, the current room is the room of the name
\* typed, the list is that room's recent history oldest first, seen_ids is
\* the set of the list's ids, the room has one sidebar entry, with unread 0,
\* appended if the room had none, and every other entry is as it was.
C19_JoinLoadsRoom ==
    [][(c_pc = "join_upsert" /\ c_pc' = "draw")
       => (/\ room' \in DOMAIN rooms_tbl
           /\ rooms_tbl[room'].name = arg_name(parse_command(input).arg)
           /\ IsRecentHistory(messages', room')
           /\ seen_ids' = {messages'[i] : i \in DOMAIN messages'}
           /\ Cardinality({i \in DOMAIN rooms' : rooms'[i].id = room'}) = 1
           /\ \A i \in DOMAIN rooms' : rooms'[i].id = room' => rooms'[i].unread = 0
           /\ IF \E i \in DOMAIN rooms : rooms[i].id = room'
              THEN /\ Len(rooms') = Len(rooms)
                   /\ \A i \in DOMAIN rooms :
                         /\ rooms'[i].id = rooms[i].id
                         /\ rooms[i].id # room' => rooms'[i] = rooms[i]
              ELSE /\ Len(rooms') = Len(rooms) + 1
                   /\ SubSeq(rooms', 1, Len(rooms)) = rooms)]_vars

\* C19 witness: a Join has completed for a room that has more messages than
\* are loaded, written at different times
C19_Witness ==
    /\ c_pc = "draw" /\ calls.key = "Enter" /\ status = "joined"
    /\ room = 2
    /\ Len(messages) = HistoryLoad
    /\ Cardinality({i \in DOMAIN messages_tbl : messages_tbl[i].room_id = room}) > HistoryLoad
    /\ messages_tbl[messages[1]].created_at < messages_tbl[messages[Len(messages)]].created_at

\* the sidebar entry a Leave on the line in input is about: the first whose
\* room has the name typed (the current room's name if none is typed), 0 if
\* there is none
leave_idx ==
    LET arg         == parse_command(input).arg
        target_name == IF arg = <<>> THEN rooms_tbl[room].name ELSE arg_name(arg)
        hits        == {i \in DOMAIN rooms : rooms_tbl[rooms[i].id].name = target_name}
    IN  IF hits = {} THEN 0 ELSE CHOOSE i \in hits : \A j \in hits : i <= j

\* C21: a Leave of a sidebar entry that is not the current room, the store
\* answering, deletes the membership of the session's user in that room and
\* no other, removes that entry and no other from the sidebar (the others
\* keep their order and unread counters), and leaves the current room, the
\* messages and the seen ids as they were.
C21_LeaveOtherRoom ==
    [][(/\ EnterCommand("leave")
        /\ leave_idx # 0
        /\ rooms[leave_idx].id # room
        /\ c_pc' # "failed")
       => LET gone == rooms[leave_idx].id
              kept(m) == ~(m.room_id = gone /\ m.user_id = Me)
              other(re) == re.id # gone
          IN  /\ c_pc' = "draw"
              /\ room_members' = SelectSeq(room_members, kept)
              /\ rooms' = SelectSeq(rooms, other)
              /\ Len(rooms') = Len(rooms) - 1
              /\ UNCHANGED <<room, messages, seen_ids, rooms_tbl>>]_vars

\* C21 witness: with three rooms in the sidebar, one of them unread, the
\* entry of a room that is not current has just been left; the unread entry
\* and the current room's messages are still there
C21_Witness ==
    /\ c_pc = "draw" /\ calls.key = "Enter"
    /\ status = "left 'temp'"
    /\ Len(rooms) = 2
    /\ \E i \in DOMAIN rooms : rooms[i].unread = 1 /\ rooms[i].id # room
    /\ messages # <<>>
    /\ \A i \in DOMAIN room_members : rooms_tbl[room_members[i].room_id].name # "temp"

\* the sidebar entry after the i-th, going round
following(i) == (i % Len(rooms)) + 1

\* C22: a Leave of the current room while the sidebar has two entries or
\* more, unless a store call fails, deletes the membership of the room left,
\* makes the room of the entry that follows it (going round) current, loads
\* that room's recent history, and removes the entry of the room left and no
\* other; the room left is then neither current nor in the sidebar.  (A step
\* that ends in failure with the membership still there, or while the room
\* to focus is not deleted, is a failing store call.)
C22_LeaveCurrentRoom ==
    [][(/\ EnterCommand("leave")
        /\ leave_idx # 0
        /\ rooms[leave_idx].id = room
        /\ Len(rooms) >= 2
        /\ c_pc' = "failed" => /\ room_members' # room_members
                               /\ rooms_tbl[rooms[following(leave_idx)].id].is_deleted)
       => LET gone == rooms[leave_idx].id
              other(re) == re.id # gone
          IN  /\ c_pc' = "draw"
              /\ \A i \in DOMAIN room_members' :
                    ~(room_members'[i].room_id = gone /\ room_members'[i].user_id = Me)
              /\ room' = rooms[following(leave_idx)].id
              /\ room' # gone
              /\ IsRecentHistory(messages', room')
              /\ seen_ids' = {messages'[i] : i \in DOMAIN messages'}
              /\ rooms' = SelectSeq(rooms, other)]_vars

\* the step is handle_key for Tab
TabStep == c_pc = "input" /\ calls'.key = "Tab"

\* C23: Tab, with the current room in the sidebar and unless a store call
\* fails, looks up the room of the entry that follows the current one (going
\* round from the last to the first), and then makes it current, loads its
\* recent history and sets its unread counter to 0, the sidebar keeping its
\* entries, their order and the other counters.  (A lookup that ends in
\* failure while the room looked up is not deleted is a failing store call.)
C23_TabAdvances ==
    /\ [][(/\ TabStep
           /\ position(rooms, room) # 0
           /\ c_pc' = "failed" => rooms_tbl[rooms[following(position(rooms, room))].id].is_deleted)
          => (/\ c_pc' = "tab_upsert"
              /\ c_local' = rooms[following(position(rooms, room))].id)]_vars
    /\ [][(c_pc = "tab_upsert" /\ c_pc' = "draw")
          => (/\ room' = c_local
              /\ IsRecentHistory(messages', room')
              /\ seen_ids' = {messages'[i] : i \in DOMAIN messages'}
              /\ Len(rooms') = Len(rooms)
              /\ \A i \in DOMAIN rooms :
                    /\ rooms'[i].id = rooms[i].id
                    /\ rooms'[i].unread = IF rooms[i].id = room' THEN 0 ELSE rooms[i].unread)]_vars

(***************************************************************************)
(* Inbound events (SpecRoute).                                             *)
(***************************************************************************)
\* the step takes the first event off the queue
DrainStep == c_pc = "drain" /\ queue # <<>> /\ Len(queue') = Len(queue) - 1

\* C24: the loop handles an event, the store answering, by its room: for the
\* current room the id is appended to the messages and added to seen_ids if
\* it was not seen (and nothing is appended if it was); for another room
\* that has an entry in the sidebar, that entry's unread counter grows by
\* one, the other entries stay and nothing else of the session changes; for
\* any other room nothing of the session changes.  No id is ever twice in
\* the messages.
C24_EventsRoutedByRoom ==
    /\ [][(DrainStep /\ c_pc' # "failed")
          => LET ev == Head(queue)
             IN  /\ UNCHANGED <<room, input, status, running, storeVars, rooms_tbl>>
                 /\ IF ev.room_id = room
                    THEN /\ messages' = IF ev.id \in seen_ids THEN messages
                                        ELSE Append(messages, ev.id)
                         /\ seen_ids' = seen_ids \cup {ev.id}
                         /\ UNCHANGED rooms
                    ELSE /\ UNCHANGED <<messages, seen_ids>>
                         /\ Len(rooms') = Len(rooms)
                         /\ \A i \in DOMAIN rooms :
                               /\ rooms'[i].id = rooms[i].id
                               /\ rooms'[i].unread = IF rooms[i].id = ev.room_id
                                                     THEN rooms[i].unread + 1
                                                     ELSE rooms[i].unread]_vars
    /\ [](\A i, j \in DOMAIN messages : messages[i] = messages[j] => i = j)

\* C24 witness: with no room switch made, an event of the current room has
\* put its message in the list and an event of the other joined room has made
\* that room unread
C24_Witness ==
    /\ status = "/help for commands"
    /\ c_pc = "drain" /\ queue = <<>>
    /\ Len(messages) = 1
    /\ messages_tbl[messages[1]].room_id = room
    /\ \E i \in DOMAIN rooms : rooms[i].id # room /\ rooms[i].unread = 1

(***************************************************************************)
(* Rename (SpecRename).                                                    *)
(***************************************************************************)
\* the audit records of user u, in the order of the commits
changes_of(u) == LET of_u(r) == r.user_id = u IN SelectSeq(name_changes, of_u)

\* C25: in every state of the store the audit records of each user form the
\* history of the user's handle: the first starts from the handle the user
\* had at first, each next one from the handle the one before ended with,
\* and the last ends with the user's handle now (which is the first handle
\* if there is no record); and every step that changes a handle or the audit
\* records changes one handle and appends the one record of that change,
\* with the handle of just before as old handle.
C25_RenameAudited ==
    /\ [](\A u \in DOMAIN users_tbl :
             LET recs == changes_of(u)
             IN  /\ recs = <<>> => users_tbl[u].handle = InitUsers[u].handle
                 /\ recs # <<>> =>
                       /\ recs[1].old_handle = InitUsers[u].handle
                       /\ \A i \in 2..Len(recs) : recs[i].old_handle = recs[i - 1].new_handle
                       /\ recs[Len(recs)].new_handle = users_tbl[u].handle)
    /\ [][(users_tbl' # users_tbl \/ name_changes' # name_changes)
          => /\ Len(name_changes') = Len(name_changes) + 1
             /\ SubSeq(name_changes', 1, Len(name_changes)) = name_changes
             /\ LET r == name_changes'[Len(name_changes')]
                IN  /\ r.old_handle = users_tbl[r.user_id].handle
                    /\ users_tbl' = [users_tbl EXCEPT ![r.user_id].handle = r.new_handle]]_vars

\* C25 witness: of two calls for the same user that read the same handle,
\* one failed part-way and the other has committed
C25_Witness ==
    /\ renamer[1].pc = "ok" /\ renamer[2].pc = "error"
    /\ renamer[1].user = Me /\ renamer[2].user = Me
    /\ renamer[2].old = renamer[1].old
    /\ renamer[2].new # renamer[1].new
    /\ name_changes = <<[user_id |-> Me, old_handle |-> "h1", new_handle |-> renamer[1].new]>>
    /\ users_tbl[Me].handle = renamer[1].new

\* another user has the handle h
taken(h) == \E v \in DOMAIN users_tbl : v # Me /\ users_tbl[v].handle = h

\* C26: the update of the session's change_handle, made while another user
\* has the handle, ends in the unique violation; when the call has returned
\* it, the handler sets the status "nick taken" and the loop goes on to draw,
\* with the session's copy of the handle, the users and the audit records as
\* they were; and when a call of the session has committed, the handler
\* takes the new handle and sets the status "nick changed".
C26_NickTaken ==
    /\ [][(/\ renamer[1].pc = "update" /\ taken(renamer[1].new)
           /\ renamer'[1].pc \notin {"update", "error"})
          => (renamer'[1].pc = "conflict" /\ UNCHANGED <<users_tbl, name_changes>>)]_vars
    /\ [][(c_pc = "nick" /\ renamer[1].pc = "conflict" /\ c_pc' # "nick")
          => (/\ status' = "nick taken"
              /\ c_pc' = "draw" /\ running'
              /\ UNCHANGED <<app_user, users_tbl, name_changes>>)]_vars
    /\ [][(c_pc = "nick" /\ renamer[1].pc = "ok" /\ c_pc' # "nick")
          => (/\ status' = "nick changed"
              /\ c_pc' = "draw"
              /\ app_user' = renamer[1].new
              /\ changes_of(Me) # <<>>)]_vars

\* C26 witness: the session's Rename to the other user's handle has just
\* been refused; nothing is changed and the loop is about to draw
C26_Witness ==
    /\ c_pc = "draw" /\ running /\ calls.key = "Enter"
    /\ status = "nick taken"
    /\ app_user = "h1" /\ users_tbl[Me].handle = "h1"
    /\ users_tbl[2].handle = "h2"
    /\ name_changes = <<>>

(***************************************************************************)
(* DeleteRoom (SpecRooms).                                                 *)
(***************************************************************************)
\* the rooms of that name that user u created and that are not deleted
deletable(name, u) ==
    {i \in DOMAIN rooms_tbl : /\ rooms_tbl[i].name = name
                              /\ rooms_tbl[i].created_by = u
                              /\ ~rooms_tbl[i].is_deleted}

\* C27: a RoomDel with a valid name, the store answering, marks the room of
\* that name deleted and sets the status "room '<name>' deleted" if the
\* session's user created it and it is not deleted; otherwise it sets the
\* status "not room creator or already deleted", the loop goes on, and the
\* rooms, memberships, messages and the session's room, list, seen ids and
\* sidebar are as they were.  No step makes a deleted room not deleted.
C27_RoomDelByCreator ==
    /\ [][(/\ EnterCommand("roomdel")
           /\ valid_room_name(arg_name(parse_command(input).arg))
           /\ c_pc' # "failed")
          => LET name == arg_name(parse_command(input).arg)
             IN  /\ c_pc' = "draw"
                 /\ UNCHANGED <<storeVars, room, messages, seen_ids>>
                 /\ IF deletable(name, Me) # {}
                    THEN /\ status' = "room '" \o name \o "' deleted"
                         /\ rooms_tbl' = [i \in DOMAIN rooms_tbl |->
                                             IF i \in deletable(name, Me)
                                             THEN [rooms_tbl[i] EXCEPT !.is_deleted = TRUE]
                                             ELSE rooms_tbl[i]]
                    ELSE /\ status' = "not room creator or already deleted"
                         /\ UNCHANGED <<rooms_tbl, rooms>>]_vars
    /\ [][\A i \in DOMAIN rooms_tbl :
             rooms_tbl[i].is_deleted => (i \in DOMAIN rooms_tbl' /\ rooms_tbl'[i].is_deleted)]_vars

\* C27 witness: the session has deleted the room it created, and a later
\* RoomDel, of that room or of the room another user created, has just been
\* refused; the other user's room is not deleted
C27_Witness ==
    /\ c_pc = "draw" /\ calls.key = "Enter"
    /\ status = "not room creator or already deleted"
    /\ \E i \in DOMAIN rooms_tbl :
          rooms_tbl[i].name = "temp" /\ rooms_tbl[i].created_by = Me /\ rooms_tbl[i].is_deleted
    /\ \E i \in DOMAIN rooms_tbl :
          rooms_tbl[i].name = "dev" /\ rooms_tbl[i].created_by # Me /\ ~rooms_tbl[i].is_deleted

(***************************************************************************)
(* Failures (SpecSession).                                                 *)
(***************************************************************************)
\* C28: when the store call of an intent has failed (here the insert of a
\* Send or of a /me returned an error other than the rate limit), the render
\* loop has not ended: it is about to draw again and is still running.
C28_StoreFailureSurfaced ==
    calls.insert_message = "error" => (c_pc \in {"draw", "drain", "input"} /\ running)

\* the line fails a local validation: it is empty, names an invalid room
\* (Join, DeleteRoom) or an invalid handle (Rename), or is a message longer
\* than the maximum
FailsValidation ==
    LET c == parse_command(input)
    IN  \/ input = <<>>
        \/ c.cmd \in {"join", "roomdel"} /\ ~valid_room_name(arg_name(c.arg))
        \/ c.cmd = "nick" /\ ~valid_nick(arg_name(c.arg))
        \/ c = None /\ Len(input) > MsgMaxLen

\* C29: Enter on a line that fails a local validation makes no call of the
\* bucket or the store, sets a status, leaves the store and the session's
\* room, messages, seen ids, sidebar and handle as they were, and the loop
\* goes on to draw; no message longer than the maximum is ever written.
C29_ValidationRejected ==
    [][(EnterStep /\ FailsValidation)
       => (/\ c_pc' = "draw" /\ running'
           /\ status' \in {"empty", "invalid room [a-z0-9_-]{1,24}",
                           "usage: /roomdel <name> (a-z0-9_-){1,24}",
                           "invalid nick [a-z0-9_-]{2,16}", "message too long"}
           /\ calls' = called("Enter")
           /\ UNCHANGED <<storeVars, rooms_tbl, users_tbl, name_changes, renamer, bucket,
                          room, messages, seen_ids, rooms, app_user>>)]_vars

(***************************************************************************)
(* Memberships (SpecMembers).                                              *)
(***************************************************************************)
\* the pair has a membership
member(tbl, r, u) == \E i \in DOMAIN tbl : tbl[i].room_id = r /\ tbl[i].user_id = u

\* C30: a call of leave_room returns true exactly when the pair had a
\* membership (as after join_room), deletes that row and no other, and the
\* room is then not in list_joined_rooms of the user; a call for a pair
\* without membership returns false and changes nothing; in every state a
\* second leave_room after a first returns false and leaves the table of the
\* first.
C30_LeaveIdempotent ==
    /\ [][(ret' # ret /\ ret'.res \in {"dropped", "kept"})
          => LET u == ret'.user
                 r == ret'.room
                 other(m) == ~(m.room_id = r /\ m.user_id = u)
             IN  /\ (ret'.res = "dropped") <=> member(room_members, r, u)
                 /\ room_members' = SelectSeq(room_members, other)
                 /\ ~member(room_members, r, u) => room_members' = room_members
                 /\ ~member(room_members', r, u)
                 /\ \A i \in DOMAIN list_joined_rooms(room_members', rooms_tbl, u) :
                       list_joined_rooms(room_members', rooms_tbl, u)[i].id # r]_vars
    /\ [](\A u \in Users, r \in DOMAIN rooms_tbl :
             LET first  == leave_room(join_room(room_members, r, u), r, u)
                 second == leave_room(first.tbl, r, u)
             IN  /\ first.dropped
                 /\ ~second.dropped
                 /\ second.tbl = first.tbl)

\* C30 witness: the session's user, a member of the default room at first,
\* has left it, and a further leave_room of the pair has returned false,
\* while the other user is still a member of that room
C30_Witness ==
    /\ ret.res = "kept" /\ ret.user = Me /\ ret.room = 1
    /\ ~member(room_members, 1, Me)
    /\ member(room_members, 1, 2)

(***************************************************************************)
(* The render loop and the notifier (Spec).                                *)
(***************************************************************************)
\* the session's state: the fields of App and the position of run
sessionVars == <<room, input, status, messages, seen_ids, rooms, running, bucket, app_user,
                 c_pc, c_local>>

\* the step is one of the notifier task: it moves the task, forwards an event
\* or takes a notification off the subscription
NotifierStep ==
    \/ <<n_pc, backoff_secs, steps_left, last_seen, rows, n_ev, fails, dropped>>'
         # <<n_pc, backoff_secs, steps_left, last_seen, rows, n_ev, fails, dropped>>
    \/ Len(queue') > Len(queue)
    \/ Len(notifs') < Len(notifs)

\* the step is handle_key
KeyStep == calls'.key # "" /\ calls' # calls

\* C31: in every turn of the render loop the input is polled only after the
\* drain has found the queue empty, and the drain never waits for an event
\* (with events queued it takes one, with none it goes on to the input); a
\* turn handles at most one key: a key is handled only from the poll of the
\* input, which the turn then leaves, and no second key is handled before
\* the next draw; an event is applied only while the loop is in its drain
\* and no key handler is in progress, a key handler only while it is not;
\* no step of the notifier changes the session's state.
C31_DrainThenOneKey ==
    /\ [][(c_pc' = "input" /\ c_pc # "input") => (c_pc = "drain" /\ queue = <<>>)]_vars
    /\ [](c_pc = "drain" => ENABLED (DrainEvent \/ DrainDone))
    /\ [][KeyStep => (c_pc = "input" /\ calls.key = "" /\ c_pc' # "input")]_vars
    /\ [][c_pc = "input" => c_pc' # "drain"]_vars
    /\ [][Len(queue') < Len(queue)
          => (c_pc = "drain" /\ calls.key = "" /\ UNCHANGED <<input, status, running, room>>)]_vars
    /\ [](c_pc \notin {"draw", "drain", "input", "done", "failed"} => calls.key # "")
    /\ [][KeyStep => UNCHANGED queue]_vars
    /\ [][NotifierStep => UNCHANGED <<sessionVars, calls, own_sent, echoed>>]_vars

\* C31 witness: in one turn of the loop an event of another user's message
\* was drained into the list before the key was handled that sent the
\* session's own message after it, and the notifier has queued the next
\* event meanwhile
C31_Witness ==
    /\ c_pc = "draw" /\ calls.key = "Enter" /\ calls.insert_message = "ok"
    /\ Len(messages) = 2
    /\ messages_tbl[messages[1]].user_id # Me
    /\ messages_tbl[messages[2]].user_id = Me
    /\ queue # <<>>

(***************************************************************************)
(* The sidebar and the current room (SpecRooms, SpecLeave).                *)
(***************************************************************************)
\* C32: while the session runs, the current room is one of the entries of
\* the sidebar (which is then not empty, and Tab and /leave find the current
\* room in it)
C32_CurrentRoomListed == Alive => position(rooms, room) # 0

(***************************************************************************)
(* Unread counters (SpecNotifier).                                         *)
(***************************************************************************)
\* the messages the store holds for a room
created_in(r) == {i \in DOMAIN messages_tbl : messages_tbl[i].room_id = r}

\* C33: the unread counter of a joined room that is not current is at most
\* the number of messages created in that room (each message is counted at
\* most once, whether its event comes by notification, by polling, or both)
C33_UnreadCountsOnce ==
    \A i \in DOMAIN rooms :
        rooms[i].id # room => rooms[i].unread <= Cardinality(created_in(rooms[i].id))

\* the step completes an intent that was applied: Tab or /join have made a
\* room current, /leave has removed an entry, /roomdel has deleted a room
IntentApplied ==
    /\ c_pc' = "draw"
    /\ \/ c_pc \in {"tab_upsert", "join_upsert"}
       \/ EnterCommand("leave") /\ rooms' # rooms
       \/ EnterCommand("roomdel") /\ rooms_tbl' # rooms_tbl

\* C34: after every applied intent (Tab, /join, /leave of the current or of
\* another room, /roomdel) the sidebar entry of the current room has no
\* unread messages
C34_CurrentRoomRead ==
    [][IntentApplied => \A i \in DOMAIN rooms' : rooms'[i].id = room' => rooms'[i].unread = 0]_vars

(***************************************************************************)
(* The loaded list (Spec).                                                 *)
(***************************************************************************)
\* C35: the loaded list is in the order of nondecreasing created_at
C35_OrderedByCreation ==
    \A i, j \in DOMAIN messages :
        i < j => messages_tbl[messages[i]].created_at <= messages_tbl[messages[j]].created_at

(***************************************************************************)
(* SpecList: the loaded list under every way it is filled: the preload of  *)
(* run, the drain of events that come by notification and by polling, the  *)
(* sends of the session (plain and /me) and the reloads of Tab and /join.   *)
(* The session starts one tick after its notifier was spawned.             *)
(***************************************************************************)
\* the store at startup: empty, or holding one message of the other user for
\* the default room
Preloads == {<<>>, insert_message(<<>>, 1, 2, 0).tbl}

\* run up to the event loop: the history of the default room is loaded and
\* seen_ids filled from it
InitList ==
    /\ now = 1
    /\ bucket = TokenBucket_new(RatePerMin, 0)
    /\ b_hist = NoHist
    /\ drained = 0
    /\ messages_tbl \in Preloads
    /\ room_members = <<[room_id |-> 1, user_id |-> Me], [room_id |-> 2, user_id |-> Me]>>
    /\ ret = NoRet
    /\ users_tbl = InitUsers
    /\ rooms_tbl = InitRooms
    /\ InitResolved /\ InitNotifier /\ InitRename
    /\ room = 1
    /\ messages \in recent_messages_view(messages_tbl, 1, HistoryLoad)
    /\ seen_ids = Range(messages)
    /\ rooms = <<[id |-> 1, unread |-> 0], [id |-> 2, unread |-> 0]>>
    /\ input = <<>>
    /\ status = "/help for commands"
    /\ running = TRUE
    /\ c_pc = "draw"
    /\ calls = NoCalls
    /\ own_sent = {}
    /\ echoed = {}
    /\ c_local = 0

\* the lines the operator types (with all their prefixes)
ListLines == {<<"hi">>, <<"/me">>, <<"/me", "hi">>, <<"/join">>, <<"/join", "dev">>}

TypeListWord == \E ch \in {"hi", "/me", "/join", "dev"} : push_char(ch, ListLines)

NextList ==
    \/ ExternalSend
    \/ LoopDraw \/ DrainEvent \/ DrainDone \/ NoKey \/ TypeListWord
    \/ EnterSend \/ CommandMe \/ KeyTab \/ TabUpsert \/ CommandJoin \/ JoinUpsert
    \/ Subscribe \/ TransportFails \/ Recv \/ NotifSend \/ PollQuery \/ PollSend \/ Sleep

SpecList == InitList /\ [][NextList]_vars

\* C36: the loaded list has no id twice, and seen_ids is the set of the ids
\* of the loaded list
C36_SeenIsLoaded ==
    /\ \A i, j \in DOMAIN messages : messages[i] = messages[j] => i = j
    /\ seen_ids = Range(messages)

\* C36 witness: the list holds a message of the other user and after it the
\* session's own /me message, whose event has been drained as well
C36_Witness ==
    /\ messages = <<1, 2>>
    /\ messages_tbl[1].user_id # Me /\ messages_tbl[2].user_id = Me
    /\ status = "me" /\ echoed = {2}
    /\ c_pc = "drain" /\ queue = <<>>

(***************************************************************************)
(* The bucket and the gate (SpecSession).                                  *)
(***************************************************************************)
\* every stored message of the session's user was sent by this session
SingleSession == \A i \in DOMAIN messages_tbl : messages_tbl[i].user_id = Me => i \in own_sent

\* C37: in a single session, a send for which the bucket has granted a token
\* is not refused by the server's gate
C37_BucketMirrorsGate ==
    (SingleSession /\ calls.try_consume = "granted") => calls.insert_message # "rate_limited"

(***************************************************************************)
(* SpecRace: sessions of any user handle /join <name> at the same time.    *)
(* ensure_room_exists (data.rs) is two statements, a select by name and an *)
(* insert, outside any transaction; the store runs one statement at a time *)
(* and the sessions interleave between their statements.  Creators delete  *)
(* rooms meanwhile.                                                        *)
(***************************************************************************)
\* the unique index on rooms.name: an insert of a name that a row holds is
\* refused (SQLSTATE 23505)
rooms_name_taken(tbl, name) == \E i \in DOMAIN tbl : tbl[i].name = name

\* the names the sessions join: a room that exists and one that does not
RaceNames == {"dev", "temp"}

raceFrame ==
    UNCHANGED <<now, messages_tbl, ret, bucket, histVars, users_tbl, resolver, renameVars,
                c_local, appVars, queue, notifierVars>>

\* Command::Join with a valid name: ensure_room_exists is called
JoinBegin(p, u, name) ==
    /\ joiner[p].pc \in {"idle", "joined", "room is deleted"}
    /\ valid_room_name(name)
    /\ joiner' = [joiner EXCEPT ![p] = [pc |-> "select", user |-> u, name |-> name, room |-> 0]]
    /\ UNCHANGED <<rooms_tbl, room_members>>
    /\ raceFrame

\* ensure_room_exists: select ... from rooms where name = $1; a row that is
\* deleted gives Err("room_deleted"), which Command::Join turns into a status
EnsureSelect(p) ==
    /\ joiner[p].pc = "select"
    /\ LET found == {i \in DOMAIN rooms_tbl : rooms_tbl[i].name = joiner[p].name}
       IN  IF found = {}
           THEN joiner' = [joiner EXCEPT ![p].pc = "insert"]
           ELSE LET i == CHOOSE j \in found : TRUE
                IN  IF rooms_tbl[i].is_deleted
                    THEN joiner' = [joiner EXCEPT ![p].pc = "room is deleted"]
                    ELSE joiner' = [joiner EXCEPT ![p].pc = "join_room", ![p].room = i]
    /\ UNCHANGED <<rooms_tbl, room_members>>
    /\ raceFrame

\* ensure_room_exists: insert into rooms(name, created_by); its Err is
\* returned with `?`, and Command::Join returns every Err that is not
\* room_deleted: run ends
EnsureInsert(p) ==
    /\ joiner[p].pc = "insert"
    /\ IF rooms_name_taken(rooms_tbl, joiner[p].name)
       THEN /\ joiner' = [joiner EXCEPT ![p].pc = "failed"]
            /\ UNCHANGED rooms_tbl
       ELSE /\ rooms_tbl' = Append(rooms_tbl, [id |-> Len(rooms_tbl) + 1,
                                               name |-> joiner[p].name,
                                               created_by |-> joiner[p].user,
                                               is_deleted |-> FALSE])
            /\ joiner' = [joiner EXCEPT ![p].pc = "join_room", ![p].room = Len(rooms_tbl) + 1]
    /\ UNCHANGED room_members
    /\ raceFrame

\* Command::Join: join_room for the room returned, status "joined"
JoinMember(p) ==
    /\ joiner[p].pc = "join_room"
    /\ room_members' = join_room(room_members, joiner[p].room, joiner[p].user)
    /\ joiner' = [joiner EXCEPT ![p].pc = "joined"]
    /\ UNCHANGED rooms_tbl
    /\ raceFrame

\* a creator deletes a room of his in another session
RaceRoomDel ==
    /\ \E u \in Users, name \in ValidNames :
          LET sd == soft_delete_room_by_creator(rooms_tbl, name, u)
          IN  sd.ok /\ rooms_tbl' = sd.tbl
    /\ UNCHANGED <<room_members, joiner>>
    /\ raceFrame

NextRace ==
    \/ \E p \in Procs, u \in Users, name \in RaceNames : JoinBegin(p, u, name)
    \/ \E p \in Procs : EnsureSelect(p) \/ EnsureInsert(p) \/ JoinMember(p)
    \/ RaceRoomDel

SpecRace == Init /\ [][NextRace]_vars

\* C38: sessions that join the same new name at the same time all succeed:
\* no Join ends in failure, there is never more than one room of a name, and
\* of two sessions that have both joined a name both users are members of
\* the one room of that name
C38_ConcurrentJoinsSucceed ==
    /\ \A p \in Procs : joiner[p].pc # "failed"
    /\ \A i, j \in DOMAIN rooms_tbl : rooms_tbl[i].name = rooms_tbl[j].name => i = j
    /\ \A p, q \in Procs :
          (joiner[p].pc = "joined" /\ joiner[q].pc = "joined" /\ joiner[p].name = joiner[q].name)
          => /\ joiner[p].room = joiner[q].room
             /\ member(room_members, joiner[p].room, joiner[p].user)
             /\ member(room_members, joiner[q].room, joiner[q].user)

(***************************************************************************)
(* The length of a drain (Spec).                                           *)
(***************************************************************************)
\* C39: the drain of one turn of the render loop takes at most as many
\* events off the queue as the queue holds (QueueCap), also while the
\* notifier sends further events during the drain
C39_DrainBounded == drained <= QueueCap

(***************************************************************************)
(* The sidebar after /roomdel (SpecLeave).                                 *)
(***************************************************************************)
\* C40: a /roomdel that deletes a room, in a session whose sidebar lists no
\* room deleted before, leaves the current room as it is and changes the
\* sidebar only by taking out the entry of the deleted room: the other
\* entries keep their order and their unread counters
C40_RoomDelRemovesOnly ==
    [][(/\ EnterCommand("roomdel") /\ rooms_tbl' # rooms_tbl /\ c_pc' = "draw"
        /\ \A i \in DOMAIN rooms : ~rooms_tbl[rooms[i].id].is_deleted)
       => LET kept(e) == rooms_tbl'[e.id].is_deleted = rooms_tbl[e.id].is_deleted
          IN  /\ room' = room
              /\ rooms' = SelectSeq(rooms, kept)]_vars

====
